---------------------------- MODULE Spec2Model ----------------------------
(***************************************************************************)
(* A model of the statespace tool-execution runtime: the spec matcher,     *)
(* substitution, the content resolver, tool dispatch, the executor and the *)
(* request pipeline of execute_action.                                     *)
(*                                                                         *)
(* A Rust String is a sequence of one-character strings, so that the       *)
(* substring operations of the code (starts_with, contains, replace,       *)
(* trim_start_matches) are computed and not assumed.                       *)
(***************************************************************************)
EXTENDS Integers, Sequences, FiniteSets, TLC

(***************************************************************************)
(* Bounds of the model.                                                    *)
(***************************************************************************)
\* longest command of the matcher specification
MaxWords == 3
\* most parts of a ToolSpec of the matcher specification
MaxParts == 2

(***************************************************************************)
(* Strings.                                                                *)
(***************************************************************************)
\* str::starts_with
StartsWith(s, p) ==
    /\ Len(p) <= Len(s)
    /\ SubSeq(s, 1, Len(p)) = p

\* str::ends_with
EndsWith(s, p) ==
    /\ Len(p) <= Len(s)
    /\ SubSeq(s, Len(s) - Len(p) + 1, Len(s)) = p

\* str::contains
Contains(s, p) ==
    \E i \in 0..(Len(s) - Len(p)) : SubSeq(s, i + 1, i + Len(p)) = p

\* str::replace: every non-overlapping occurrence, left to right
RECURSIVE Replace(_, _, _)
Replace(s, from, to) ==
    IF Len(s) < Len(from) \/ Len(from) = 0 THEN s
    ELSE IF SubSeq(s, 1, Len(from)) = from
         THEN to \o Replace(SubSeq(s, Len(from) + 1, Len(s)), from, to)
         ELSE <<Head(s)>> \o Replace(Tail(s), from, to)

\* str::trim_start_matches(c): every leading c is removed
RECURSIVE TrimStartMatches(_, _)
TrimStartMatches(s, c) ==
    IF s # <<>> /\ Head(s) = c THEN TrimStartMatches(Tail(s), c) ELSE s

\* the words the model's commands are made of
w_ls == <<"l", "s">>
w_xls == <<"x", "l", "s">>
w_fmd == <<"f", ".", "m", "d">>
w_semicolon == <<";">>

(***************************************************************************)
(* Spec model and matcher (spec.rs).                                       *)
(***************************************************************************)
NoRegex == [none |-> TRUE]

\* a compiled regex of the form  ^?body$?  (the anchors optional)
Regex(start, body, end) == [start |-> start, body |-> body, end |-> end]

Literal(s) == [kind |-> "Literal", lit |-> s]
Placeholder(regex) == [kind |-> "Placeholder", regex |-> regex]

ToolSpec(parts, options_disabled) ==
    [parts |-> parts, options_disabled |-> options_disabled]

\* Regex::is_match: a search anywhere in the word, held by the pattern's own anchors
is_match(re, w) ==
    CASE re.start /\ re.end -> w = re.body
      [] re.start /\ ~re.end -> StartsWith(w, re.body)
      [] ~re.start /\ re.end -> EndsWith(w, re.body)
      [] OTHER -> Contains(w, re.body)

\* the body of the loop of matches_spec: whether part rejects cmd_part
PartRejects(part, cmd_part) ==
    CASE part.kind = "Literal" -> cmd_part # part.lit
      [] part.kind = "Placeholder" /\ part.regex = NoRegex -> FALSE
      [] OTHER -> ~is_match(part.regex, cmd_part)

\* the loop of matches_spec from part i on: false at the first rejecting part
RECURSIVE MatchesFrom(_, _, _)
MatchesFrom(command, parts, i) ==
    IF i > Len(parts) THEN TRUE
    ELSE IF PartRejects(parts[i], command[i]) THEN FALSE
    ELSE MatchesFrom(command, parts, i + 1)

\* matches_spec without the options_disabled return
matches_spec_ignoring_sentinel(command, spec) ==
    IF Len(command) < Len(spec.parts) THEN FALSE
    ELSE MatchesFrom(command, spec.parts, 1)

matches_spec(command, spec) ==
    IF Len(command) < Len(spec.parts) THEN FALSE
    ELSE IF Len(command) > Len(spec.parts) /\ spec.options_disabled THEN FALSE
    ELSE MatchesFrom(command, spec.parts, 1)

\* specs.iter().any(..): the specs are tried in document order
RECURSIVE AnyMatches(_, _, _)
AnyMatches(command, specs, i) ==
    IF i > Len(specs) THEN FALSE
    ELSE IF matches_spec(command, specs[i]) THEN TRUE
    ELSE AnyMatches(command, specs, i + 1)

is_valid_tool_call(command, specs) ==
    IF command = <<>> THEN FALSE
    ELSE AnyMatches(command, specs, 1)


(***************************************************************************)
(* Substitution (validation.rs).  A map is a function from keys to values; *)
(* a HashMap is iterated in an order the program does not choose, so the   *)
(* order is a parameter: a sequence that lists every key once.             *)
(***************************************************************************)
KeyOrders(map) ==
    {o \in [1..Cardinality(DOMAIN map) -> DOMAIN map] :
        \A i, j \in DOMAIN o : i # j => o[i] # o[j]}

\* for (key, value) in args { result = result.replace("{key}", value) }
RECURSIVE ExpandWord(_, _, _, _, _, _)
ExpandWord(word, map, order, i, open, close) ==
    IF i > Len(order) THEN word
    ELSE ExpandWord(Replace(word, open \o order[i] \o close, map[order[i]]),
                    map, order, i + 1, open, close)

expand_placeholders(command, args, order) ==
    [k \in DOMAIN command |-> ExpandWord(command[k], args, order, 1, <<"{">>, <<"}">>)]

expand_env_vars(command, env, order) ==
    [k \in DOMAIN command |-> ExpandWord(command[k], env, order, 1, <<"$">>, <<>>)]

(***************************************************************************)
(* The filesystem.  A path is the sequence of its components, <<>> being   *)
(* "/"; a filesystem maps paths to nodes.  A node is a file (with the id   *)
(* of its contents), a directory or a symbolic link to an absolute path.   *)
(***************************************************************************)
\* symbolic links followed in one lookup before it fails (ELOOP)
MaxLinks == 3

NoNode == [kind |-> "none"]
FileNode(doc) == [kind |-> "file", doc |-> doc]
DirNode == [kind |-> "dir"]
LinkNode(target) == [kind |-> "link", target |-> target]

Node(fsys, p) ==
    IF p = <<>> THEN DirNode
    ELSE IF p \in DOMAIN fsys THEN fsys[p] ELSE NoNode

NoPath == [ok |-> FALSE]

\* the lookup of rest below the directory cur, following every symbolic link
RECURSIVE Walk(_, _, _, _)
Walk(fsys, cur, rest, fuel) ==
    IF rest = <<>> THEN [ok |-> TRUE, path |-> cur]
    ELSE LET next == Append(cur, Head(rest))
             n == Node(fsys, next)
         IN  CASE n.kind = "dir" -> Walk(fsys, next, Tail(rest), fuel)
               [] n.kind = "file" ->
                    IF Tail(rest) = <<>> THEN [ok |-> TRUE, path |-> next] ELSE NoPath
               [] n.kind = "link" ->
                    IF fuel = 0 THEN NoPath
                    ELSE Walk(fsys, <<>>, n.target \o Tail(rest), fuel - 1)
               [] OTHER -> NoPath

\* Path::canonicalize
canonicalize(fsys, p) == Walk(fsys, <<>>, p, MaxLinks)

\* Path::is_file and Path::is_dir follow symbolic links
is_file(fsys, p) ==
    LET c == canonicalize(fsys, p) IN c.ok /\ Node(fsys, c.path).kind = "file"

is_dir(fsys, p) ==
    LET c == canonicalize(fsys, p) IN c.ok /\ Node(fsys, c.path).kind = "dir"

\* Path::starts_with compares whole components
starts_with(p, base) ==
    /\ Len(base) <= Len(p)
    /\ SubSeq(p, 1, Len(base)) = base

\* the components of a relative path string: split at "/", empty and "." dropped
RECURSIVE SplitFrom(_, _, _)
SplitFrom(s, acc, cur) ==
    LET keep == IF cur = <<>> \/ cur = <<".">> THEN acc ELSE Append(acc, cur)
    IN  IF s = <<>> THEN keep
        ELSE IF Head(s) = "/" THEN SplitFrom(Tail(s), keep, <<>>)
        ELSE SplitFrom(Tail(s), acc, Append(cur, Head(s)))

Components(s) == SplitFrom(s, <<>>, <<>>)

\* PathBuf::join of a relative path string
join(base, s) == base \o Components(s)

\* the position of the last "." of a name, 0 when it has none
LastDot(name) ==
    LET dots == {i \in 1..Len(name) : name[i] = "."}
    IN  IF dots = {} THEN 0 ELSE CHOOSE i \in dots : \A j \in dots : j <= i

\* Path::file_stem: the name up to its last ".", a leading "." not counting
file_stem(name) ==
    IF LastDot(name) <= 1 THEN name ELSE SubSeq(name, 1, LastDot(name) - 1)

\* PathBuf::set_extension: the extension of the last component is replaced
set_extension(p, ext) ==
    IF p = <<>> THEN p
    ELSE [p EXCEPT ![Len(p)] = file_stem(p[Len(p)]) \o <<".">> \o ext]

n_README == <<"R", "E", "A", "D", "M", "E", ".", "m", "d">>
n_md == <<"m", "d">>

(***************************************************************************)
(* Content resolver (content.rs).                                          *)
(***************************************************************************)
Err(kind) == [ok |-> FALSE, err |-> kind]

\* Error::PathTraversal { attempted, boundary }
PathTraversal(attempted, boundary) ==
    [ok |-> FALSE, err |-> "PathTraversal", attempted |-> attempted,
     boundary |-> boundary]

\* Error::Security(format!("<msg>: {arg}"))
Security(msg, arg) == [ok |-> FALSE, err |-> "Security", msg |-> msg, arg |-> arg]

\* LocalContentResolver::new: the root is canonicalized (crates/.../content.rs)
\* or stored as given (core/.../content.rs)
new_resolver(fsys, root, variant) ==
    IF variant = "canonicalize"
    THEN LET c == canonicalize(fsys, root)
         IN  IF c.ok THEN [ok |-> TRUE, root |-> c.path] ELSE Err("Io")
    ELSE [ok |-> TRUE, root |-> root]

\* validate_path refusing only a component that is ".."
validate_path_components(root, requested) ==
    LET trimmed == TrimStartMatches(requested, "/")
    IN  IF \E i \in 1..Len(SplitFrom(trimmed, <<>>, <<>>)) :
                SplitFrom(trimmed, <<>>, <<>>)[i] = <<".", ".">>
        THEN PathTraversal(trimmed, root)
        ELSE IF trimmed = <<>> THEN [ok |-> TRUE, path |-> root]
        ELSE [ok |-> TRUE, path |-> join(root, trimmed)]

validate_path(root, requested) ==
    LET trimmed == TrimStartMatches(requested, "/")
    IN  IF Contains(trimmed, <<".", ".">>) THEN PathTraversal(trimmed, root)
        ELSE IF trimmed = <<>> THEN [ok |-> TRUE, path |-> root]
        ELSE [ok |-> TRUE, path |-> join(root, trimmed)]

resolve_to_file(fsys, target) ==
    IF is_file(fsys, target) THEN [ok |-> TRUE, path |-> target]
    ELSE IF is_dir(fsys, target)
         THEN IF is_file(fsys, Append(target, n_README))
              THEN [ok |-> TRUE, path |-> Append(target, n_README)]
              ELSE Err("NotFound")
    ELSE IF is_file(fsys, set_extension(target, n_md))
         THEN [ok |-> TRUE, path |-> set_extension(target, n_md)]
    ELSE Err("NotFound")

\* resolve_path without the starts_with check
resolve_path_unchecked(fsys, root, path) ==
    LET target == validate_path(root, path)
        file == resolve_to_file(fsys, target.path)
        resolved == canonicalize(fsys, file.path)
    IN  IF ~target.ok THEN target
        ELSE IF ~file.ok THEN file
        ELSE IF ~resolved.ok THEN Err("NotFound")
        ELSE [ok |-> TRUE, path |-> resolved.path]

resolve_path(fsys, root, path) ==
    LET target == validate_path(root, path)
        file == resolve_to_file(fsys, target.path)
        resolved == canonicalize(fsys, file.path)
    IN  IF ~target.ok THEN target
        ELSE IF ~file.ok THEN file
        ELSE IF ~resolved.ok THEN Err("NotFound")
        ELSE IF ~starts_with(resolved.path, root) THEN PathTraversal(path, root)
        ELSE [ok |-> TRUE, path |-> resolved.path]

\* resolve: the same steps, then the file at the canonical path is read;
\* the result names the file whose contents it holds
resolve(fsys, root, path) ==
    LET p == resolve_path(fsys, root, path)
    IN  IF ~p.ok THEN p
        ELSE IF ~is_file(fsys, p.path) THEN Err("Io")
        ELSE [ok |-> TRUE,
              doc |-> Node(fsys, canonicalize(fsys, p.path).path).doc,
              read |-> canonicalize(fsys, p.path).path]

(***************************************************************************)
(* Tool dispatch (tools.rs).                                               *)
(***************************************************************************)
w_glob == <<"g", "l", "o", "b">>
w_curl == <<"c", "u", "r", "l">>
w_X == <<"-", "X">>
w_request == <<"-", "-", "r", "e", "q", "u", "e", "s", "t">>
w_GET == <<"G", "E", "T">>
w_POST == <<"P", "O", "S", "T">>
w_get == <<"g", "e", "t">>

Glob(pattern) == [type |-> "glob", pattern |-> pattern]
Curl(url, method) == [type |-> "curl", url |-> url, method |-> method]
Exec(command, args) == [type |-> "exec", command |-> command, args |-> args]

\* HttpMethod::from_str: the upper-cased word names one of the seven methods.
\* The model's commands spell a method as GET, get or POST.
ParseMethod(m) ==
    CASE m = w_GET \/ m = w_get -> [ok |-> TRUE, method |-> "GET"]
      [] m = w_POST -> [ok |-> TRUE, method |-> "POST"]
      [] OTHER -> Err("InvalidCommand")

NoValue == [some |-> FALSE]
Some(v) == [some |-> TRUE, v |-> v]

\* the try_fold of parse_curl from argument i on; acc = (url, method, expecting)
RECURSIVE CurlFold(_, _, _)
CurlFold(args, i, acc) ==
    IF ~acc.ok \/ i > Len(args) THEN acc
    ELSE LET arg == args[i]
         IN  CurlFold(args, i + 1,
                CASE acc.expecting.some ->
                        [acc EXCEPT !.method = Some(arg), !.expecting = NoValue]
                  [] arg = w_X \/ arg = w_request ->
                        [acc EXCEPT !.expecting = Some(arg)]
                  [] ~StartsWith(arg, <<"-">>) /\ ~acc.url.some ->
                        [acc EXCEPT !.url = Some(arg)]
                  [] StartsWith(arg, <<"-">>) -> Err("InvalidCommand")
                  [] OTHER -> acc)

parse_curl(args) ==
    LET parsed == CurlFold(args, 1,
                    [ok |-> TRUE, url |-> NoValue, method |-> NoValue,
                     expecting |-> NoValue])
    IN  IF ~parsed.ok THEN parsed
        ELSE IF parsed.expecting.some THEN Err("InvalidCommand")
        ELSE IF ~parsed.url.some THEN Err("InvalidCommand")
        ELSE IF ~parsed.method.some
             THEN [ok |-> TRUE, tool |-> Curl(parsed.url.v, "GET")]
        ELSE IF ~ParseMethod(parsed.method.v).ok THEN Err("InvalidCommand")
        ELSE [ok |-> TRUE,
              tool |-> Curl(parsed.url.v, ParseMethod(parsed.method.v).method)]

\* ALLOWED_COMMANDS of from_command in core/crates
ALLOWED_COMMANDS ==
    {<<"g", "r", "e", "p">>,
     <<"h", "e", "a", "d">>,
     <<"t", "a", "i", "l">>,
     <<"w", "c">>,
     <<"s", "o", "r", "t">>,
     <<"u", "n", "i", "q">>,
     <<"c", "u", "t">>,
     <<"s", "e", "d">>,
     <<"a", "w", "k">>,
     <<"f", "i", "n", "d">>,
     <<"t", "r", "e", "e">>,
     <<"f", "i", "l", "e">>,
     <<"s", "t", "a", "t">>,
     <<"m", "d", "5", "s", "u", "m">>,
     <<"s", "h", "a", "2", "5", "6", "s", "u", "m">>,
     <<"d", "u">>}

\* BuiltinTool::from_command of core/crates/statespace-tool-runtime: ls, cat
\* with an argument and the commands of ALLOWED_COMMANDS become Exec tools
from_command_core(command) ==
    IF command = <<>> THEN Err("InvalidCommand")
    ELSE IF command[1] = w_ls
         THEN [ok |-> TRUE, tool |-> Exec(w_ls, Tail(command))]
    ELSE IF command[1] = <<"c", "a", "t">>
         THEN IF Len(command) < 2 THEN Err("InvalidCommand")
              ELSE [ok |-> TRUE, tool |-> Exec(command[1], Tail(command))]
    ELSE IF command[1] = w_glob
         THEN IF Len(command) < 2 THEN Err("InvalidCommand")
              ELSE [ok |-> TRUE, tool |-> Glob(command[2])]
    ELSE IF command[1] = w_curl THEN parse_curl(Tail(command))
    ELSE IF command[1] \in ALLOWED_COMMANDS
         THEN [ok |-> TRUE, tool |-> Exec(command[1], Tail(command))]
    ELSE Err("InvalidCommand")

\* BuiltinTool::from_command of crates/statespace-tool-runtime
from_command(command) ==
    IF command = <<>> THEN Err("InvalidCommand")
    ELSE IF command[1] = w_glob
         THEN IF Len(command) < 2 THEN Err("InvalidCommand")
              ELSE [ok |-> TRUE, tool |-> Glob(command[2])]
    ELSE IF command[1] = w_curl THEN parse_curl(Tail(command))
    ELSE [ok |-> TRUE, tool |-> Exec(command[1], Tail(command))]

(***************************************************************************)
(* SSRF protection (security.rs).  An IPv4 address is its four octets, an  *)
(* IPv6 address its eight segments.                                        *)
(***************************************************************************)
V4(a, b, c, d) == [v |-> 4, o |-> <<a, b, c, d>>]
V6(segments) == [v |-> 6, s |-> segments]

\* Ipv4Addr::is_private, is_loopback, is_link_local, is_broadcast,
\* is_documentation, is_unspecified
is_private_ipv4(ip) ==
    LET o == ip.o
    IN  \/ o[1] = 10
        \/ (o[1] = 172 /\ o[2] \in 16..31)
        \/ (o[1] = 192 /\ o[2] = 168)
        \/ o[1] = 127
        \/ (o[1] = 169 /\ o[2] = 254)
        \/ o = <<255, 255, 255, 255>>
        \/ (o[1] = 192 /\ o[2] = 0 /\ o[3] = 2)
        \/ (o[1] = 198 /\ o[2] = 51 /\ o[3] = 100)
        \/ (o[1] = 203 /\ o[2] = 0 /\ o[3] = 113)
        \/ o = <<0, 0, 0, 0>>

\* segments()[0] == 0xfdaa
is_fly_6pn(ip) == ip.s[1] = 64938

\* (0xfec0..=0xfeff).contains(&s0)
is_ipv6_site_local(ip) == ip.s[1] \in 65216..65279

\* Ipv6Addr::to_ipv4_mapped is Some for ::ffff:a.b.c.d
is_ipv4_mapped_private(ip) ==
    /\ SubSeq(ip.s, 1, 6) = <<0, 0, 0, 0, 0, 65535>>
    /\ is_private_ipv4(V4(ip.s[7] \div 256, ip.s[7] % 256,
                          ip.s[8] \div 256, ip.s[8] % 256))

\* is_loopback, is_unspecified, is_unique_local (fc00::/7),
\* is_unicast_link_local (fe80::/10), is_multicast (ff00::/8)
is_private_ipv6(ip) ==
    IF is_fly_6pn(ip) THEN FALSE
    ELSE \/ ip.s = <<0, 0, 0, 0, 0, 0, 0, 1>>
         \/ ip.s = <<0, 0, 0, 0, 0, 0, 0, 0>>
         \/ ip.s[1] \in 64512..65023
         \/ ip.s[1] \in 65152..65215
         \/ ip.s[1] \in 65280..65535
         \/ is_ipv6_site_local(ip)
         \/ is_ipv4_mapped_private(ip)

is_private_or_restricted_ip(ip) ==
    IF ip.v = 4 THEN is_private_ipv4(ip) ELSE is_private_ipv6(ip)

\* the addresses of the model
ip_public == V4(1, 1, 1, 1)
ip_ten == V4(10, 0, 0, 1)
ip_loopback == V4(127, 0, 0, 1)
ip_metadata == V4(169, 254, 169, 254)
ip6_loopback == V6(<<0, 0, 0, 0, 0, 0, 0, 1>>)
ip6_fly == V6(<<64938, 0, 0, 0, 0, 0, 0, 1>>)
ip6_mapped_ten == V6(<<0, 0, 0, 0, 0, 65535, 2560, 1>>)

Addrs == {ip_public, ip_ten, ip_loopback, ip_metadata,
          ip6_loopback, ip6_fly, ip6_mapped_ten}

\* Display of an address
AddrText(ip) ==
    CASE ip = ip_public -> <<"1", ".", "1", ".", "1", ".", "1">>
      [] ip = ip_ten -> <<"1", "0", ".", "0", ".", "0", ".", "1">>
      [] ip = ip_loopback -> <<"1", "2", "7", ".", "0", ".", "0", ".", "1">>
      [] ip = ip_metadata ->
            <<"1", "6", "9", ".", "2", "5", "4", ".", "1", "6", "9", ".", "2", "5", "4">>
      [] ip = ip6_loopback -> <<":", ":", "1">>
      [] ip = ip6_fly -> <<"f", "d", "a", "a", ":", ":", "1">>
      [] ip = ip6_mapped_ten ->
            <<":", ":", "f", "f", "f", "f", ":", "1", "0", ".", "0", ".", "0", ".", "1">>

\* str::parse::<IpAddr>: the text of an address and nothing else parses
ParseIpAddr(text) ==
    IF \E ip \in Addrs : AddrText(ip) = text
    THEN [ok |-> TRUE, ip |-> CHOOSE ip \in Addrs : AddrText(ip) = text]
    ELSE [ok |-> FALSE]

h_localhost == <<"l", "o", "c", "a", "l", "h", "o", "s", "t">>
h_localdomain ==
    h_localhost \o <<".", "l", "o", "c", "a", "l", "d", "o", "m", "a", "i", "n">>
h_metadata ==
    <<"m", "e", "t", "a", "d", "a", "t", "a", ".", "g", "o", "o", "g", "l", "e", ".",
      "i", "n", "t", "e", "r", "n", "a", "l">>
h_metadata_ip == AddrText(ip_metadata)
h_site == <<"a", ".", "i", "o">>
h_rebind == <<"b", ".", "i", "o">>

s_http == <<"h", "t", "t", "p">>
s_https == <<"h", "t", "t", "p", "s">>
s_ftp == <<"f", "t", "p">>
s_file == <<"f", "i", "l", "e">>

\* a parsed URL: its scheme and its host, a domain name or an address
Domain(name) == [kind |-> "domain", name |-> name]
IpHost(ip) == [kind |-> "ip", ip |-> ip]
Url(scheme, host) == [scheme |-> scheme, host |-> host]

\* Url::host_str: an IPv6 address is given between brackets
host_str(url) ==
    CASE url.host.kind = "domain" -> url.host.name
      [] url.host.ip.v = 4 -> AddrText(url.host.ip)
      [] OTHER -> <<"[">> \o AddrText(url.host.ip) \o <<"]">>

\* Url::as_str
UrlText(url) == url.scheme \o <<":", "/", "/">> \o host_str(url) \o <<"/">>

Hosts ==
    {Domain(h) : h \in {h_localhost, h_localdomain, h_metadata, h_site, h_rebind}}
        \cup {IpHost(ip) : ip \in Addrs}

Urls == {Url(s, h) : s \in {s_http, s_https, s_ftp, s_file}, h \in Hosts}

\* Url::parse: the text of a URL parses to it, anything else is an error
ParseUrl(text) ==
    IF \E u \in Urls : UrlText(u) = text
    THEN [ok |-> TRUE, url |-> CHOOSE u \in Urls : UrlText(u) = text]
    ELSE Err("InvalidCommand")

\* to_lowercase of a host name: Url::parse has lower-cased the host already
is_localhost_name(host) == host = h_localhost \/ host = h_localdomain

is_metadata_service(host) == host = h_metadata_ip \/ host = h_metadata

\* validate_url_initial without the checks of the host name
validate_url_initial_no_name_check(url) ==
    LET parsed == ParseUrl(url)
        host == host_str(parsed.url)
    IN  IF ~parsed.ok THEN parsed
        ELSE IF parsed.url.scheme # s_http /\ parsed.url.scheme # s_https
             THEN Security("Only http/https schemes allowed, got", parsed.url.scheme)
        ELSE IF ParseIpAddr(host).ok /\ is_private_or_restricted_ip(ParseIpAddr(host).ip)
             THEN Security("Access to private/restricted IP blocked",
                           AddrText(ParseIpAddr(host).ip))
        ELSE parsed

validate_url_initial(url) ==
    LET parsed == ParseUrl(url)
        host == host_str(parsed.url)
    IN  IF ~parsed.ok THEN parsed
        ELSE IF parsed.url.scheme # s_http /\ parsed.url.scheme # s_https
             THEN Security("Only http/https schemes allowed, got", parsed.url.scheme)
        ELSE IF is_localhost_name(host)
             THEN Security("Access to localhost is not allowed", host)
        ELSE IF is_metadata_service(host)
             THEN Security("Access to metadata service blocked", host)
        ELSE IF ParseIpAddr(host).ok /\ is_private_or_restricted_ip(ParseIpAddr(host).ip)
             THEN Security("Access to private/restricted IP blocked",
                           AddrText(ParseIpAddr(host).ip))
        ELSE parsed

(***************************************************************************)
(* Parsing a raw spec (spec.rs) and the front matter (frontmatter.rs).  A  *)
(* decoded value is a string, a map from keys to values, or a number.      *)
(***************************************************************************)
Str(s) == [t |-> "string", s |-> s]
Map(m) == [t |-> "object", m |-> m]
Num(n) == [t |-> "number", n |-> n]
EmptyMap == Map(<<>>)

k_regex == <<"r", "e", "g", "e", "x">>

\* v.as_str() == Some(";")
IsSentinel(v) == v.t = "string" /\ v.s = w_semicolon

\* Regex::new for the patterns  ^?body$?  with a literal body; an unclosed
\* group does not compile
CompileRegex(pattern) ==
    LET start == pattern # <<>> /\ Head(pattern) = "^"
        rest == IF start THEN Tail(pattern) ELSE pattern
        end == rest # <<>> /\ rest[Len(rest)] = "$"
        body == IF end THEN SubSeq(rest, 1, Len(rest) - 1) ELSE rest
    IN  IF Contains(body, <<"(">>) THEN Err("InvalidRegex")
        ELSE [ok |-> TRUE, regex |-> Regex(start, body, end)]

parse_part(value) ==
    CASE value.t = "string" -> [ok |-> TRUE, part |-> Literal(value.s)]
      [] value.t = "object" ->
            IF DOMAIN value.m = {} THEN [ok |-> TRUE, part |-> Placeholder(NoRegex)]
            ELSE IF k_regex \in DOMAIN value.m /\ value.m[k_regex].t = "string"
                 THEN IF CompileRegex(value.m[k_regex].s).ok
                      THEN [ok |-> TRUE,
                            part |-> Placeholder(CompileRegex(value.m[k_regex].s).regex)]
                      ELSE Err("InvalidRegex")
            ELSE Err("InvalidPart")
      [] OTHER -> Err("InvalidPart")

\* raw.iter().filter(|v| v.as_str() != Some(";")).map(parse_part).collect()
RECURSIVE ParseParts(_, _, _)
ParseParts(raw, i, acc) ==
    IF i > Len(raw) THEN [ok |-> TRUE, parts |-> acc]
    ELSE IF IsSentinel(raw[i]) THEN ParseParts(raw, i + 1, acc)
    ELSE IF ~parse_part(raw[i]).ok THEN parse_part(raw[i])
    ELSE ParseParts(raw, i + 1, Append(acc, parse_part(raw[i]).part))

ToolSpec_parse(raw) ==
    IF raw = <<>> THEN Err("EmptySpec")
    ELSE LET parts == ParseParts(raw, 1, <<>>)
         IN  IF ~parts.ok THEN parts
             ELSE IF parts.parts = <<>> THEN Err("EmptySpec")
             ELSE [ok |-> TRUE,
                   spec |-> ToolSpec(parts.parts, IsSentinel(raw[Len(raw)]))]

\* convert_raw: the specs of the raw tools, in document order
RECURSIVE ConvertFrom(_, _, _)
ConvertFrom(tools, i, acc) ==
    IF i > Len(tools) THEN [ok |-> TRUE, specs |-> acc]
    ELSE IF ~ToolSpec_parse(tools[i]).ok THEN Err("FrontmatterParse")
    ELSE ConvertFrom(tools, i + 1, Append(acc, ToolSpec_parse(tools[i]).spec))

convert_raw(tools) == ConvertFrom(tools, 1, <<>>)

\* A document is the block at its head (yaml, toml or none) and what the
\* block decodes to: the raw tools, or nothing when it is malformed.
Document(head, decodes, tools) == [head |-> head, decodes |-> decodes, tools |-> tools]

parse_frontmatter(content) ==
    IF content.head = "none" THEN Err("NoFrontmatter")
    ELSE IF ~content.decodes THEN Err("FrontmatterParse")
    ELSE convert_raw(content.tools)

\* char::is_whitespace for the characters of the model's documents
is_whitespace(c) == c \in {" ", "\n"}

\* str::trim_start and str::trim
RECURSIVE trim_start(_)
trim_start(s) ==
    IF s # <<>> /\ is_whitespace(Head(s)) THEN trim_start(Tail(s)) ELSE s

RECURSIVE trim_end(_)
trim_end(s) ==
    IF s # <<>> /\ is_whitespace(s[Len(s)])
    THEN trim_end(SubSeq(s, 1, Len(s) - 1)) ELSE s

trim(s) == trim_end(trim_start(s))

\* str::find: the byte offset of the first occurrence, if any
find(s, pat) ==
    LET at == {i \in 0..(Len(s) - Len(pat)) : SubSeq(s, i + 1, i + Len(pat)) = pat}
    IN  IF at = {} THEN NoValue
        ELSE Some(CHOOSE i \in at : \A j \in at : i <= j)

\* extract_yaml_frontmatter and extract_toml_frontmatter, which differ in
\* the delimiter ("---", "+++") only
extract_frontmatter(content, delim) ==
    LET trimmed == trim_start(content)
        after_open == SubSeq(trimmed, Len(delim) + 1, Len(trimmed))
        close_pos == find(after_open, <<"\n">> \o delim)
    IN  IF ~StartsWith(trimmed, delim) THEN NoValue
        ELSE IF ~close_pos.some THEN NoValue
        ELSE Some(trim(SubSeq(after_open, 1, close_pos.v)))

d_yaml == <<"-", "-", "-">>
d_toml == <<"+", "+", "+">>

\* parse_frontmatter on the text of a document: the YAML block, else the
\* TOML block, else NoFrontmatter; decoded is what the decoder of the block
\* makes of the extracted text (the raw tools, or nothing)
parse_frontmatter_text(content, decoded) ==
    IF extract_frontmatter(content, d_yaml).some
    THEN parse_frontmatter(Document("yaml", decoded.some,
                                    IF decoded.some THEN decoded.v ELSE <<>>))
    ELSE IF extract_frontmatter(content, d_toml).some
    THEN parse_frontmatter(Document("toml", decoded.some,
                                    IF decoded.some THEN decoded.v ELSE <<>>))
    ELSE parse_frontmatter(Document("none", FALSE, <<>>))

(***************************************************************************)
(* Validation (validation.rs).                                             *)
(***************************************************************************)
\* validation that lets every command through
validate_command_with_specs_permissive(specs, command) == [ok |-> TRUE]

validate_command_with_specs(specs, command) ==
    IF command = <<>> THEN Err("InvalidCommand")
    ELSE IF ~is_valid_tool_call(command, specs) THEN Err("CommandNotFound")
    ELSE [ok |-> TRUE]

(***************************************************************************)
(* Executor (executor.rs).                                                 *)
(***************************************************************************)
\* ExecutionLimits of the model's executor
max_output_bytes == 3
max_list_items == 2

\* an output byte that is no UTF-8, and the three bytes of U+FFFD
b_invalid == "xFF"
ReplacementChar == <<"xEF", "xBF", "xBD">>

\* String::from_utf8_lossy: every invalid byte becomes U+FFFD
RECURSIVE from_utf8_lossy(_)
from_utf8_lossy(bytes) ==
    IF bytes = <<>> THEN <<>>
    ELSE (IF Head(bytes) = b_invalid THEN ReplacementChar ELSE <<Head(bytes)>>)
            \o from_utf8_lossy(Tail(bytes))

\* the check of the last argument alone
LastArgRefused(args, i) ==
    /\ args # <<>>
    /\ \/ StartsWith(args[Len(args)], <<"/">>)
       \/ Contains(args[Len(args)], <<".", ".">>)

\* the first argument that starts with "/" or contains ".." is refused
RECURSIVE ArgsRefused(_, _)
ArgsRefused(args, i) ==
    IF i > Len(args) THEN FALSE
    ELSE IF StartsWith(args[i], <<"/">>) THEN TRUE
    ELSE IF Contains(args[i], <<".", ".">>) THEN TRUE
    ELSE ArgsRefused(args, i + 1)

\* the text execute_exec builds of the collected output
ExecText(stdout, stderr) ==
    LET result == from_utf8_lossy(stdout)
    IN  IF stderr # <<>>
        THEN (IF result # <<>> THEN result \o <<"\n">> ELSE result)
                \o from_utf8_lossy(stderr)
        ELSE result

\* result.len() >= max_output_bytes in place of >
TextResultOffByOne(text) ==
    IF Len(text) >= max_output_bytes THEN Err("OutputTooLarge")
    ELSE [ok |-> TRUE, output |-> [kind |-> "Text", text |-> text]]

\* the size check of execute_exec and execute_curl
TextResult(text) ==
    IF Len(text) > max_output_bytes THEN Err("OutputTooLarge")
    ELSE [ok |-> TRUE, output |-> [kind |-> "Text", text |-> text]]

safe_join(root, path) ==
    LET trimmed == TrimStartMatches(path, "/")
    IN  IF Contains(trimmed, <<".", ".">>) THEN PathTraversal(trimmed, root)
        ELSE [ok |-> TRUE, path |-> join(root, trimmed)]

\* one component of a glob pattern against a name: "*" stands for any text,
\* at the head of the component
GlobComponent(pat, name) ==
    IF pat # <<>> /\ Head(pat) = "*" THEN EndsWith(name, Tail(pat)) ELSE pat = name

\* glob::glob: the existing paths the pattern matches
GlobPaths(fsys, pattern) ==
    {p \in DOMAIN fsys :
        /\ Len(p) = Len(pattern)
        /\ fsys[p].kind # "none"
        /\ canonicalize(fsys, SubSeq(p, 1, Len(p) - 1)).ok
        /\ \A i \in 1..Len(p) : GlobComponent(pattern[i], p[i])}

\* Path::strip_prefix(root).unwrap_or(path)
strip_prefix(p, root) ==
    IF starts_with(p, root) THEN SubSeq(p, Len(root) + 1, Len(p)) ELSE p

\* files.truncate(max_list_items)
truncate(files) ==
    IF Len(files) > max_list_items THEN SubSeq(files, 1, max_list_items) ELSE files

\* str::parse::<SocketAddr> of "host:port" in lookup_host: an IPv4 text or a
\* bracketed IPv6 text is an address and is not looked up
ParseSocketAddr(host) ==
    IF ParseIpAddr(host).ok THEN ParseIpAddr(host)
    ELSE IF Len(host) >= 2 /\ Head(host) = "[" /\ host[Len(host)] = "]"
         THEN ParseIpAddr(SubSeq(host, 2, Len(host) - 1))
    ELSE [ok |-> FALSE]

\* a check of the first address of the answer alone
FirstPrivate(addresses) ==
    is_private_or_restricted_ip(CHOOSE a \in addresses : \A b \in addresses :
                                    is_private_or_restricted_ip(a) => is_private_or_restricted_ip(b))

\* for addr in addrs { if is_private_or_restricted_ip(..) { return Err(Security) } }
AnyPrivate(addresses) == \E a \in addresses : is_private_or_restricted_ip(a)

\* glob::glob yields its paths in alphabetical order: the rank of a name among
\* the names of the model, and the order of two paths of the same length
SortedNames ==
    <<<<"R", "E", "A", "D", "M", "E", ".", "m", "d">>, <<"e", "t", "c">>,
      <<"e", "v", "i", "l">>, <<"f">>, <<"f", ".", "m", "d">>, <<"l", "n", "k">>,
      <<"p", "a", "s", "s", "w", "d">>, <<"r">>, <<"s", "u", "b">>>>

NameRank(name) == CHOOSE i \in 1..Len(SortedNames) : SortedNames[i] = name

PathBefore(p, q) ==
    \E i \in 1..Len(p) :
        /\ SubSeq(p, 1, i - 1) = SubSeq(q, 1, i - 1)
        /\ NameRank(p[i]) < NameRank(q[i])

RECURSIVE SortPaths(_)
SortPaths(paths) ==
    IF paths = {} THEN <<>>
    ELSE LET first == CHOOSE p \in paths : \A q \in paths \ {p} : PathBefore(p, q)
         IN  <<first>> \o SortPaths(paths \ {first})

\* [a, b, c].join("\n")
RECURSIVE JoinLines(_)
JoinLines(keys) ==
    IF keys = <<>> THEN <<>>
    ELSE IF Len(keys) = 1 THEN keys[1]
    ELSE keys[1] \o <<"\n">> \o JoinLines(Tail(keys))

\* ToolOutput::to_text
to_text(output) ==
    IF output.kind = "Text" THEN output.text ELSE JoinLines(output.files)

\* a path taken for its own parent
no_parent(p) == p

\* Path::parent().unwrap_or(path)
parent(p) == IF p = <<>> THEN p ELSE SubSeq(p, 1, Len(p) - 1)

(***************************************************************************)
(* Errors and responses (error.rs, protocol.rs, server.rs).                *)
(***************************************************************************)
\* a status table that answers 404 for a refused path
status_code_not_found_for_traversal(kind) ==
    CASE kind \in {"InvalidCommand", "CommandNotFound", "NoFrontmatter",
                   "FrontmatterParse"} -> 400
      [] kind = "Security" -> 403
      [] kind \in {"NotFound", "PathTraversal"} -> 404
      [] kind = "Timeout" -> 408
      [] kind = "OutputTooLarge" -> 413
      [] kind = "Network" -> 502
      [] OTHER -> 500

\* Error::status_code
status_code(kind) ==
    CASE kind \in {"InvalidCommand", "CommandNotFound", "NoFrontmatter",
                   "FrontmatterParse"} -> 400
      [] kind \in {"PathTraversal", "Security"} -> 403
      [] kind = "NotFound" -> 404
      [] kind = "Timeout" -> 408
      [] kind = "OutputTooLarge" -> 413
      [] kind = "Network" -> 502
      [] OTHER -> 500

NoResponse == [status |-> 0]

\* String::new()
NoText == [text |-> "", arg |-> <<>>]

\* ActionResponse::error(message) under a status: error_response(status, msg)
\* of request.validate(), whose only message is "command cannot be empty"
error_response(status) ==
    [status |-> status, returncode |-> 1, err |-> "validate",
     stdout |-> NoText,
     stderr |-> [text |-> "command cannot be empty", arg |-> <<>>]]

\* Error::user_message: the text of the kind and the value it is formatted
\* with; PathTraversal shows attempted and not boundary
user_message(e) ==
    CASE e.err = "PathTraversal" ->
            [text |-> "Access denied: cannot access", arg |-> e.attempted]
      [] e.err = "Security" ->
            [text |-> "Security violation: " \o e.msg, arg |-> e.arg]
      [] e.err = "Internal" -> [text |-> "Internal server error", arg |-> <<>>]
      [] OTHER -> [text |-> e.err, arg |-> <<>>]

error_to_action_response(e) ==
    [status |-> status_code(e.err), returncode |-> 1, err |-> e.err,
     stdout |-> NoText, stderr |-> user_message(e)]

\* (StatusCode::OK, Json(ActionResponse::success(output)))
success_response(output) ==
    [status |-> 200, returncode |-> 0, err |-> "",
     stdout |-> [text |-> "", arg |-> output], stderr |-> NoText]

(***************************************************************************)
(* The state.                                                              *)
(***************************************************************************)
VARIABLES
    \* the environment: the filesystem, the DNS answers
    fs, dns,
    \* the server: ServerConfig.content_root
    content_root,
    \* one request in execute_action: the request, the place in the handler,
    \* the handler's locals, the response, and the stages gone through
    request, pc, file_path, content, frontmatter, expanded_command, tool,
    response, stages,
    \* the executor of the request: its root, whether the deadline of the
    \* timeout has passed, the subprocess, the addresses checked, the address
    \* and the body of the HTTP exchange, the glob entries to go and gone, the
    \* result, and the counts of what it did
    root, deadline_passed, child, addrs, contacted, body, http_status, glob_todo, files,
    result, spawned, dns_queries, http_requests,
    \* the matcher alone: a command, a list of specs, the outcome of a call
    m_command, m_specs, m_out,
    \* the resolver alone: how it was constructed, a request path, the outcome
    r_variant, r_path, r_out,
    \* a parser alone: the value it is called on, the outcome
    p_input, p_out

envVars == <<fs, dns, content_root>>
handlerVars ==
    <<request, pc, file_path, content, frontmatter, expanded_command, tool,
      response, stages>>
executorVars ==
    <<root, deadline_passed, child, addrs, contacted, body, http_status, glob_todo, files,
      result, spawned, dns_queries, http_requests>>
matcherVars == <<m_command, m_specs, m_out>>
resolverVars == <<r_variant, r_path, r_out>>
parserVars == <<p_input, p_out>>
vars == <<envVars, handlerVars, executorVars, matcherVars, resolverVars, parserVars>>

NoResult == [ok |-> FALSE, err |-> "none"]
NoChild == [state |-> "none"]

(***************************************************************************)
(* The files, documents and requests of the model.                         *)
(***************************************************************************)
n_r == <<"r">>
n_sub == <<"s", "u", "b">>
n_evil == <<"e", "v", "i", "l">>
n_etc == <<"e", "t", "c">>
n_passwd == <<"p", "a", "s", "s", "w", "d">>
n_lnk == <<"l", "n", "k">>
n_f == <<"f">>
n_nope == <<"n", "o", "p", "e">>
n_dotted == <<"f", ".", ".", "m", "d">>
n_ft == <<"f", ".", "t">>

w_cat == <<"c", "a", "t">>
w_rm == <<"r", "m">>
w_la == <<"-", "l", "a">>
w_v == <<"-", "v">>
w_abs == <<"/", "x">>
w_up == <<".", ".", "/", "x">>
w_star_md == <<"*", ".", "m", "d">>
w_ph_p == <<"{", "p", "}">>
w_env_c == <<"$", "c">>
k_p == <<"p">>
k_c == <<"c">>

\* the content root, and a symbolic link to it
RootDir == <<n_r>>
RootLink == <<n_lnk>>

doc_tools ==
    Document("yaml", TRUE,
        << <<Str(w_ls)>>, <<Str(w_cat), EmptyMap>>, <<Str(w_glob)>>, <<Str(w_curl)>> >>)
doc_strict ==
    Document("toml", TRUE,
        << <<Str(w_cat), Map(k_regex :> Str(<<"m", "d", "$">>)), Str(w_semicolon)>> >>)
doc_none == Document("none", FALSE, <<>>)
doc_malformed == Document("yaml", FALSE, <<>>)
doc_bad_regex == Document("yaml", TRUE, << <<Str(w_ls), Map(k_regex :> Str(<<"(">>))>> >>)
doc_secret == Document("none", FALSE, << <<Str(n_passwd)>> >>)

\* a filesystem: the content root /r, /etc outside it, and the link /lnk -> /r
Fs(readme, fmd, sub, sub_readme, evil, passwd, etc_readme) ==
    (RootDir :> DirNode)
        @@ (<<n_r, n_README>> :> readme)
        @@ (<<n_r, w_fmd>> :> fmd)
        @@ (<<n_r, n_sub>> :> sub)
        @@ (<<n_r, n_sub, n_README>> :> sub_readme)
        @@ (<<n_r, n_evil>> :> evil)
        @@ (<<n_etc>> :> DirNode)
        @@ (<<n_etc, n_passwd>> :> passwd)
        @@ (<<n_etc, n_README>> :> etc_readme)
        @@ (RootLink :> LinkNode(RootDir))

\* the path string of a sequence of names
RECURSIVE PathText(_)
PathText(names) ==
    IF names = <<>> THEN <<>>
    ELSE IF Len(names) = 1 THEN names[1]
    ELSE names[1] \o <<"/">> \o PathText(Tail(names))

(***************************************************************************)
(* The values of the variables a specification does not use.               *)
(***************************************************************************)
NoRequest == [path |-> <<>>, command |-> <<>>, args |-> <<>>, env |-> <<>>]

HandlerIdle ==
    /\ request = NoRequest
    /\ pc = "idle"
    /\ file_path = <<>>
    /\ content = doc_none
    /\ frontmatter = <<>>
    /\ expanded_command = <<>>
    /\ tool = NoValue
    /\ response = NoResponse
    /\ stages = <<>>

ExecutorIdle ==
    /\ root = <<>>
    /\ deadline_passed = FALSE
    /\ child = NoChild
    /\ addrs = {}
    /\ contacted = NoValue
    /\ body = <<>>
    /\ http_status = 0
    /\ glob_todo = <<>>
    /\ files = <<>>
    /\ result = NoResult
    /\ spawned = 0
    /\ dns_queries = 0
    /\ http_requests = 0

MatcherIdle ==
    /\ m_command = <<>>
    /\ m_specs = <<>>
    /\ m_out = [op |-> "none"]

ResolverIdle ==
    /\ r_variant = "verbatim"
    /\ r_path = <<>>
    /\ r_out = [op |-> "none"]

ParserIdle ==
    /\ p_input = <<>>
    /\ p_out = [op |-> "none"]

NoDns == <<>>

(***************************************************************************)
(* The matcher alone: is_valid_tool_call and matches_spec are called on    *)
(* every command of up to MaxWords words and on lists of specs of up to    *)
(* MaxParts parts.                                                         *)
(***************************************************************************)
MatchWords == {w_ls, w_xls, w_fmd}

MatchCommands == UNION {[1..n -> MatchWords] : n \in 0..MaxWords}

MatchParts ==
    {Literal(w_ls), Placeholder(NoRegex),
     Placeholder(Regex(FALSE, w_ls, FALSE)), Placeholder(Regex(TRUE, <<"f">>, FALSE))}

MatchSpecs ==
    {ToolSpec(parts, d) :
        parts \in UNION {[1..n -> MatchParts] : n \in 1..MaxParts}, d \in BOOLEAN}

SecondSpecs ==
    {ToolSpec(<<Literal(w_ls)>>, TRUE),
     ToolSpec(<<Placeholder(NoRegex), Placeholder(NoRegex)>>, FALSE)}

MatchSpecLists ==
    {<<>>} \cup {<<a>> : a \in MatchSpecs}
           \cup {<<a, b>> : a \in MatchSpecs, b \in SecondSpecs}

InitMatch ==
    /\ fs = <<>> /\ dns = NoDns /\ content_root = <<>>
    /\ HandlerIdle /\ ExecutorIdle /\ ResolverIdle /\ ParserIdle
    /\ m_command \in MatchCommands
    /\ m_specs \in MatchSpecLists
    /\ m_out = [op |-> "none"]

CallMatchesSpec(i) ==
    /\ m_out.op = "none"
    /\ m_out' = [op |-> "matches_spec", spec |-> m_specs[i],
                 result |-> matches_spec(m_command, m_specs[i])]
    /\ UNCHANGED <<envVars, handlerVars, executorVars, m_command, m_specs, resolverVars, parserVars>>

CallIsValidToolCall ==
    /\ m_out.op = "none"
    /\ m_out' = [op |-> "is_valid_tool_call",
                 result |-> is_valid_tool_call(m_command, m_specs)]
    /\ UNCHANGED <<envVars, handlerVars, executorVars, m_command, m_specs, resolverVars, parserVars>>

NextMatch ==
    \/ \E i \in 1..Len(m_specs) : CallMatchesSpec(i)
    \/ CallIsValidToolCall

SpecMatch == InitMatch /\ [][NextMatch]_vars

(***************************************************************************)
(* The resolver alone: resolve_path and resolve are called for a request   *)
(* path in a filesystem that holds still during the call.                  *)
(***************************************************************************)
ResolveFs ==
    {Fs(readme, fmd, sub, sub_readme, evil, passwd, etc_readme)
            @@ (<<n_r, n_dotted>> :> dotted) @@ (<<n_r, n_f>> :> f) :
        dotted \in {NoNode, FileNode(doc_tools)},
        f \in {NoNode, DirNode},
        readme \in {NoNode, FileNode(doc_tools)},
        fmd \in {NoNode, FileNode(doc_strict)},
        sub \in {NoNode, DirNode, LinkNode(<<n_etc>>), LinkNode(<<n_r, w_fmd>>)},
        sub_readme \in {NoNode, FileNode(doc_none)},
        evil \in {NoNode, LinkNode(<<n_etc, n_passwd>>), LinkNode(<<n_r, w_fmd>>)},
        passwd \in {NoNode, FileNode(doc_secret)},
        etc_readme \in {NoNode, FileNode(doc_secret)}}

\* a file lies in a directory
WellFormedFs(fsys) ==
    fsys[<<n_r, n_sub, n_README>>].kind # "none" => fsys[<<n_r, n_sub>>].kind = "dir"

ResolvePaths ==
    {<<>>, w_fmd, n_f, n_ft, n_sub, n_evil, n_dotted, <<"/">> \o n_evil, n_nope,
     PathText(<<n_sub, n_README>>), PathText(<<n_sub, n_passwd>>),
     PathText(<<<<".", ".">>, n_etc, n_passwd>>)}

InitResolve ==
    /\ fs \in {fsys \in ResolveFs : WellFormedFs(fsys)}
    /\ dns = NoDns
    /\ content_root \in {RootDir, RootLink}
    /\ HandlerIdle /\ ExecutorIdle /\ MatcherIdle /\ ParserIdle
    /\ r_variant \in {"canonicalize", "verbatim"}
    /\ r_path \in ResolvePaths
    /\ r_out = [op |-> "none"]

CallResolvePath ==
    /\ r_out.op = "none"
    /\ new_resolver(fs, content_root, r_variant).ok
    /\ r_out' = [op |-> "resolve_path",
                 res |-> resolve_path(fs, new_resolver(fs, content_root, r_variant).root,
                                      r_path)]
    /\ UNCHANGED <<envVars, handlerVars, executorVars, matcherVars, r_variant, r_path, parserVars>>

CallResolve ==
    /\ r_out.op = "none"
    /\ new_resolver(fs, content_root, r_variant).ok
    /\ r_out' = [op |-> "resolve",
                 res |-> resolve(fs, new_resolver(fs, content_root, r_variant).root,
                                 r_path)]
    /\ UNCHANGED <<envVars, handlerVars, executorVars, matcherVars, r_variant, r_path, parserVars>>

NextResolve == CallResolvePath \/ CallResolve

SpecResolve == InitResolve /\ [][NextResolve]_vars

(***************************************************************************)
(* The request pipeline: execute_action (server.rs) serves one request,    *)
(* and the executor (executor.rs) runs the tool it dispatches.  The        *)
(* filesystem holds still; the DNS answers of one name may change while a  *)
(* Curl execution is in flight.                                            *)
(***************************************************************************)
Request(path, command, args, env) ==
    [path |-> path, command |-> command, args |-> args, env |-> env]

NoMap == <<>>

w_nourl == <<"n", "o", "u", "r", "l">>
w_ph_q == <<"{", "q", "}">>
k_q == <<"q">>

\* the content roots served: the README varies, /r/f.md is strict, /r/evil is
\* a link out of the root
PipelineFs ==
    {Fs(FileNode(readme), FileNode(doc_strict), DirNode, sub_readme,
        LinkNode(<<n_etc, n_passwd>>), FileNode(doc_secret), NoNode) :
        readme \in {doc_tools, doc_none, doc_malformed, doc_bad_regex},
        sub_readme \in {NoNode, FileNode(doc_tools)}}

\* the answers of the name whose answer may change
DnsAnswers == {{}, {ip_public}, {ip_loopback}, {ip_public, ip_ten}}

\* the answer to a query for a host, by the system's resolver
Lookup(d, host) ==
    IF host \in DOMAIN d THEN d[host]
    ELSE IF is_localhost_name(host) THEN {ip_loopback}
    ELSE IF host = h_metadata THEN {ip_metadata}
    ELSE {}

CurlUrls ==
    {UrlText(Url(s_http, h)) : h \in Hosts}
        \cup {UrlText(Url(s, Domain(h_site))) : s \in {s_https, s_ftp, s_file}}
        \cup {w_nourl}

ReadmeCommands ==
    {<<>>, <<w_ls>>, <<w_ls, w_la>>, <<w_rm>>, <<w_cat, w_fmd>>, <<w_cat, w_abs>>,
     <<w_cat, w_up>>, <<w_cat, w_abs, w_fmd>>, <<w_cat, w_fmd, w_up>>,
     <<w_glob>>, <<w_glob, w_star_md>>, <<w_glob, <<"*">>>>, <<w_glob, w_up>>,
     <<w_curl>>, <<w_curl, w_v, UrlText(Url(s_http, Domain(h_site)))>>,
     <<w_curl, w_X, w_POST, UrlText(Url(s_http, Domain(h_site)))>>,
     <<w_curl, w_X, w_get, UrlText(Url(s_http, Domain(h_site)))>>}
        \cup {<<w_curl, u>> : u \in CurlUrls}

Requests ==
    {Request(<<>>, c, NoMap, NoMap) : c \in ReadmeCommands}
        \cup {Request(<<>>, <<w_cat, w_ph_p>>, a, NoMap) :
                a \in {k_p :> w_fmd, k_p :> w_up,
                       (k_p :> w_ph_q) @@ (k_q :> w_fmd)}}
        \cup {Request(<<>>, <<w_env_c, w_fmd>>, NoMap, e) :
                e \in {k_c :> w_cat, k_c :> w_rm}}
        \cup {Request(n_f, c, NoMap, NoMap) :
                c \in {<<w_ls>>, <<w_cat, w_fmd>>, <<w_cat, w_fmd, w_la>>}}
        \cup {Request(n_f, <<w_cat, w_ph_p>>, a, NoMap) :
                a \in {k_p :> w_fmd, k_p :> w_ls}}
        \cup {Request(p, <<>>, NoMap, NoMap) :
                p \in {n_nope, PathText(<<<<".", ".">>, n_etc, n_passwd>>)}}
        \cup {Request(p, <<w_ls>>, NoMap, NoMap) :
                p \in {n_sub, n_evil, n_nope, PathText(<<<<".", ".">>, n_etc, n_passwd>>)}}
        \cup {Request(n_sub, <<w_glob, w_star_md>>, NoMap, NoMap)}

Init ==
    /\ fs \in PipelineFs
    /\ dns \in {(h_site :> {ip_public}) @@ (h_rebind :> a) : a \in DnsAnswers}
    /\ content_root = RootDir
    /\ request \in Requests
    /\ pc = "validate_request"
    /\ file_path = <<>>
    /\ content = doc_none
    /\ frontmatter = <<>>
    /\ expanded_command = <<>>
    /\ tool = NoValue
    /\ response = NoResponse
    /\ stages = <<>>
    /\ ExecutorIdle /\ MatcherIdle /\ ResolverIdle /\ ParserIdle

\* a validate that lets every request through
validate_any(req) == [ok |-> TRUE]

\* ActionRequest::validate
validate(req) ==
    IF req.command = <<>> THEN [ok |-> FALSE, msg |-> "command cannot be empty"]
    ELSE [ok |-> TRUE]

\* the resolver of ServerState::from_config
Resolver == new_resolver(fs, content_root, "verbatim")

\* if let Err(msg) = request.validate() { return error_response(400, &msg) }
ValidateRequest ==
    /\ pc = "validate_request"
    /\ stages' = Append(stages, "validate_request")
    /\ IF ~validate(request).ok
       THEN response' = error_response(400) /\ pc' = "done"
       ELSE pc' = "resolve_path" /\ UNCHANGED response
    /\ UNCHANGED <<envVars, request, file_path, content, frontmatter,
                   expanded_command, tool, executorVars, matcherVars, resolverVars, parserVars>>

\* let file_path = match state.content_resolver.resolve_path(path).await
ResolvePath ==
    /\ pc = "resolve_path"
    /\ stages' = Append(stages, "resolve_path")
    /\ LET p == resolve_path(fs, Resolver.root, request.path)
       IN  IF p.ok
           THEN file_path' = p.path /\ pc' = "resolve" /\ UNCHANGED response
           ELSE /\ response' = error_to_action_response(p)
                /\ pc' = "done"
                /\ UNCHANGED file_path
    /\ UNCHANGED <<envVars, request, content, frontmatter, expanded_command, tool,
                   executorVars, matcherVars, resolverVars, parserVars>>

\* let content = match state.content_resolver.resolve(path).await
Resolve ==
    /\ pc = "resolve"
    /\ stages' = Append(stages, "resolve")
    /\ LET c == resolve(fs, Resolver.root, request.path)
       IN  IF c.ok
           THEN content' = c.doc /\ pc' = "parse_frontmatter" /\ UNCHANGED response
           ELSE /\ response' = error_to_action_response(c)
                /\ pc' = "done"
                /\ UNCHANGED content
    /\ UNCHANGED <<envVars, request, file_path, frontmatter, expanded_command, tool,
                   executorVars, matcherVars, resolverVars, parserVars>>

\* let frontmatter = match parse_frontmatter(&content)
ParseFrontmatter ==
    /\ pc = "parse_frontmatter"
    /\ stages' = Append(stages, "parse_frontmatter")
    /\ LET fm == parse_frontmatter(content)
       IN  IF fm.ok
           THEN frontmatter' = fm.specs /\ pc' = "substitute" /\ UNCHANGED response
           ELSE /\ response' = error_to_action_response(fm)
                /\ pc' = "done"
                /\ UNCHANGED frontmatter
    /\ UNCHANGED <<envVars, request, file_path, content, expanded_command, tool,
                   executorVars, matcherVars, resolverVars, parserVars>>

\* expand_placeholders, then expand_env_vars of its result
Substitute ==
    /\ pc = "substitute"
    /\ stages' = Append(stages, "substitute")
    /\ \E oa \in KeyOrders(request.args), oe \in KeyOrders(request.env) :
            expanded_command' =
                expand_env_vars(expand_placeholders(request.command, request.args, oa),
                                request.env, oe)
    /\ pc' = "validate"
    /\ UNCHANGED <<envVars, request, file_path, content, frontmatter, tool, response,
                   executorVars, matcherVars, resolverVars, parserVars>>

\* if let Err(e) = validate_command_with_specs(&frontmatter.specs, &expanded_command)
Validate ==
    /\ pc = "validate"
    /\ stages' = Append(stages, "validate")
    /\ LET v == validate_command_with_specs(frontmatter, expanded_command)
       IN  IF v.ok
           THEN pc' = "dispatch" /\ UNCHANGED response
           ELSE response' = error_to_action_response(v) /\ pc' = "done"
    /\ UNCHANGED <<envVars, request, file_path, content, frontmatter,
                   expanded_command, tool, executorVars, matcherVars, resolverVars, parserVars>>

\* BuiltinTool::from_command(&expanded_command), then ToolExecutor::new with
\* the parent of file_path as its root
Dispatch ==
    /\ pc = "dispatch"
    /\ stages' = Append(stages, "dispatch")
    /\ LET t == from_command(expanded_command)
       IN  IF t.ok
           THEN /\ tool' = Some(t.tool)
                /\ root' = parent(file_path)
                /\ pc' = "execute"
                /\ UNCHANGED response
           ELSE /\ response' = error_to_action_response(t)
                /\ pc' = "done"
                /\ UNCHANGED <<tool, root>>
    /\ UNCHANGED <<envVars, request, file_path, content, frontmatter,
                   expanded_command, deadline_passed, child, addrs, contacted, body, http_status,
                   glob_todo, files, result, spawned, dns_queries, http_requests,
                   matcherVars, resolverVars, parserVars>>

\* match executor.execute(&tool).await: the response of the result
Respond ==
    /\ pc = "executed"
    /\ stages' = Append(stages, "respond")
    /\ response' = IF result.ok THEN success_response(to_text(result.output))
                   ELSE error_to_action_response(result)
    /\ pc' = "done"
    /\ UNCHANGED <<envVars, request, file_path, content, frontmatter,
                   expanded_command, tool, executorVars, matcherVars, resolverVars, parserVars>>

(***************************************************************************)
(* ToolExecutor::execute: the tool runs inside timeout(limits.timeout, ..). *)
(* The execution is at an await point (exec_wait, dns_wait, http_wait,     *)
(* body_wait) or inside the synchronous execute_glob (glob_iter).          *)
(***************************************************************************)
handlerLocals ==
    <<request, file_path, content, frontmatter, expanded_command, tool, response>>

\* what a subprocess or an HTTP server may write
Outputs ==
    {[i \in 1..n |-> "a"] : n \in 0..(max_output_bytes + 1)} \cup {<<b_invalid>>}

\* the environment of the server process
ServerEnv == ("PATH" :> "/opt/bin") @@ ("SECRET" :> "s3cret")

\* the environment of a Command that inherits that of the server
inherited_env(inherited) ==
    ("PATH" :> "/usr/local/bin:/usr/bin:/bin") @@ ("HOME" :> "/tmp")
        @@ ("LANG" :> "C.UTF-8") @@ ("LC_ALL" :> "C.UTF-8") @@ inherited

\* env_clear(), then the four env(..) calls
command_env(inherited) ==
    ("PATH" :> "/usr/local/bin:/usr/bin:/bin") @@ ("HOME" :> "/tmp")
        @@ ("LANG" :> "C.UTF-8") @@ ("LC_ALL" :> "C.UTF-8")

\* the subprocess of Command::new(command).args(args).current_dir(&self.root)
Running(argv) ==
    [state |-> "running", argv |-> argv, cwd |-> root, env |-> command_env(ServerEnv),
     stdout |-> <<>>, stderr |-> <<>>, status |-> 0]

\* execute_exec up to Command::output().await: the check of the arguments,
\* then the spawn, which may fail
ExecStart ==
    /\ pc = "execute" /\ tool.v.type = "exec"
    /\ stages' = Append(stages, "execute")
    /\ IF ArgsRefused(tool.v.args, 1)
       THEN /\ LET args == tool.v.args
                    bad == CHOOSE i \in 1..Len(args) :
                                /\ ArgsRefused(SubSeq(args, 1, i), 1)
                                /\ ~ArgsRefused(SubSeq(args, 1, i - 1), 1)
                IN  result' =
                        IF StartsWith(args[bad], <<"/">>)
                        THEN Security("Absolute paths not allowed in command arguments",
                                      args[bad])
                        ELSE Security("Path traversal not allowed in command arguments",
                                      args[bad])
            /\ pc' = "executed"
            /\ UNCHANGED <<child, spawned>>
       ELSE \E found \in BOOLEAN :
                IF found
                THEN /\ child' = Running(<<tool.v.command>> \o tool.v.args)
                     /\ spawned' = spawned + 1
                     /\ pc' = "exec_wait"
                     /\ UNCHANGED result
                ELSE /\ result' = Err("Internal")
                     /\ pc' = "executed"
                     /\ UNCHANGED <<child, spawned>>
    /\ UNCHANGED <<envVars, handlerLocals, root, deadline_passed, addrs, contacted,
                   body, http_status, glob_todo, files, dns_queries, http_requests,
                   matcherVars, resolverVars, parserVars>>

\* the subprocess exits and output() completes: the text and its size check
ChildExit ==
    /\ pc = "exec_wait"
    /\ \E stdout \in Outputs, stderr \in Outputs, status \in {0, 1} :
            /\ child' = [child EXCEPT !.state = "exited", !.stdout = stdout,
                                      !.stderr = stderr, !.status = status]
            /\ result' = TextResult(ExecText(stdout, stderr))
    /\ pc' = "executed"
    /\ UNCHANGED <<envVars, handlerLocals, stages, root, deadline_passed, addrs,
                   contacted, body, http_status, glob_todo, files, spawned, dns_queries,
                   http_requests, matcherVars, resolverVars, parserVars>>

\* execute_glob up to its loop: safe_join and glob::glob
GlobStart ==
    /\ pc = "execute" /\ tool.v.type = "glob"
    /\ stages' = Append(stages, "execute")
    /\ LET full_pattern == safe_join(root, tool.v.pattern)
       IN  IF full_pattern.ok
           THEN /\ glob_todo' = SortPaths(GlobPaths(fs, full_pattern.path))
                /\ pc' = "glob_iter"
                /\ UNCHANGED result
           ELSE /\ result' = full_pattern
                /\ pc' = "executed"
                /\ UNCHANGED glob_todo
    /\ UNCHANGED <<envVars, handlerLocals, root, deadline_passed, child, addrs,
                   contacted, body, http_status, files, spawned, dns_queries, http_requests,
                   matcherVars, resolverVars, parserVars>>

\* one turn of  for entry in paths
GlobEntry ==
    /\ pc = "glob_iter" /\ glob_todo # <<>>
    /\ files' = Append(files, PathText(strip_prefix(Head(glob_todo), root)))
    /\ glob_todo' = Tail(glob_todo)
    /\ UNCHANGED <<envVars, handlerLocals, pc, stages, root, deadline_passed, child,
                   addrs, contacted, body, http_status, result, spawned, dns_queries,
                   http_requests, matcherVars, resolverVars, parserVars>>

\* the end of the loop: truncate and Ok(ToolOutput::FileList(files)); the
\* timeout returns the value of a future that is ready when it is polled
GlobFinish ==
    /\ pc = "glob_iter" /\ glob_todo = <<>>
    /\ result' = [ok |-> TRUE, output |-> [kind |-> "FileList", files |-> truncate(files)]]
    /\ pc' = "executed"
    /\ UNCHANGED <<envVars, handlerLocals, stages, root, deadline_passed, child,
                   addrs, contacted, body, http_status, glob_todo, files, spawned, dns_queries,
                   http_requests, matcherVars, resolverVars, parserVars>>

\* limits.timeout elapses while execute_glob runs: the future is not polled
\* before execute_glob returns
DeadlineInGlob ==
    /\ pc = "glob_iter" /\ ~deadline_passed
    /\ deadline_passed' = TRUE
    /\ UNCHANGED <<envVars, handlerLocals, pc, stages, root, child, addrs, contacted,
                   body, http_status, glob_todo, files, result, spawned, dns_queries,
                   http_requests, matcherVars, resolverVars, parserVars>>

\* limits.timeout elapses at an await point: the future is dropped and the
\* result is Err(Timeout); Command has no kill_on_drop, the subprocess stays
Elapsed ==
    /\ pc \in {"exec_wait", "dns_wait", "http_wait", "body_wait"}
    /\ deadline_passed' = TRUE
    /\ result' = Err("Timeout")
    /\ pc' = "executed"
    /\ UNCHANGED <<envVars, handlerLocals, stages, root, child, addrs, contacted,
                   body, http_status, glob_todo, files, spawned, dns_queries, http_requests,
                   matcherVars, resolverVars, parserVars>>

\* a subprocess left behind exits by itself
OrphanExit ==
    /\ pc \in {"executed", "done"} /\ child.state = "running"
    /\ child' = [child EXCEPT !.state = "exited"]
    /\ UNCHANGED <<envVars, handlerLocals, pc, stages, root, deadline_passed, addrs,
                   contacted, body, http_status, glob_todo, files, result, spawned, dns_queries,
                   http_requests, matcherVars, resolverVars, parserVars>>

\* the host of the URL of the Curl tool
CurlHost == host_str(ParseUrl(tool.v.url).url)

\* the addresses a connection to the host may go to: the HTTP client
\* resolves the host name of the URL itself
ConnectAddrs ==
    IF ParseSocketAddr(CurlHost).ok THEN {ParseSocketAddr(CurlHost).ip}
    ELSE Lookup(dns, CurlHost)

\* execute_curl up to lookup_host(..).await: validate_url_initial; the text
\* of a socket address is not looked up
CurlStart ==
    /\ pc = "execute" /\ tool.v.type = "curl"
    /\ stages' = Append(stages, "execute")
    /\ LET parsed == validate_url_initial(tool.v.url)
       IN  IF ~parsed.ok
           THEN /\ result' = parsed
                /\ pc' = "executed"
                /\ UNCHANGED <<addrs, dns_queries>>
           ELSE IF ParseSocketAddr(CurlHost).ok
           THEN /\ addrs' = {ParseSocketAddr(CurlHost).ip}
                /\ IF AnyPrivate(addrs')
                   THEN /\ \E a \in {b \in addrs' : is_private_or_restricted_ip(b)} :
                            result' = Security("Access to private IP blocked", AddrText(a))
                        /\ pc' = "executed"
                   ELSE pc' = "http_wait" /\ UNCHANGED result
                /\ UNCHANGED dns_queries
           ELSE /\ dns_queries' = dns_queries + 1
                /\ pc' = "dns_wait"
                /\ UNCHANGED <<addrs, result>>
    /\ UNCHANGED <<envVars, handlerLocals, root, deadline_passed, child, contacted,
                   body, http_status, glob_todo, files, spawned, http_requests,
                   matcherVars, resolverVars, parserVars>>

\* lookup_host completes: no address is a failure; every address is checked
DnsAnswer ==
    /\ pc = "dns_wait"
    /\ addrs' = Lookup(dns, CurlHost)
    /\ IF addrs' = {}
       THEN result' = Err("Network") /\ pc' = "executed"
       ELSE IF AnyPrivate(addrs')
       THEN /\ \E a \in {b \in addrs' : is_private_or_restricted_ip(b)} :
                result' = Security("Access to private IP blocked", AddrText(a))
            /\ pc' = "executed"
       ELSE pc' = "http_wait" /\ UNCHANGED result
    /\ UNCHANGED <<envVars, handlerLocals, stages, root, deadline_passed, child,
                   contacted, body, http_status, glob_todo, files, spawned, dns_queries,
                   http_requests, matcherVars, resolverVars, parserVars>>

\* client.request(method, parsed.as_str()).send(): the client connects to an
\* address of the host as it resolves now
HttpConnect ==
    /\ pc = "http_wait"
    /\ IF ConnectAddrs = {}
       THEN /\ result' = Err("Network")
            /\ pc' = "executed"
            /\ UNCHANGED <<contacted, http_requests>>
       ELSE /\ \E a \in ConnectAddrs : contacted' = Some(a)
            /\ http_requests' = http_requests + 1
            /\ pc' = "body_wait"
            /\ UNCHANGED result
    /\ UNCHANGED <<envVars, handlerLocals, stages, root, deadline_passed, child,
                   addrs, body, http_status, glob_todo, files, spawned, dns_queries,
                   matcherVars, resolverVars, parserVars>>

\* a redirect policy that follows up to ten redirects, the default of the
\* HTTP client
redirect_policy_default == [limit |-> 10]

\* .redirect(reqwest::redirect::Policy::none())
redirect_policy == [limit |-> 0]

\* whether the client answers a response by a request to its Location
follows_redirect(policy, status, requests) ==
    status \in 300..399 /\ requests - 1 < policy.limit

\* the response arrives: send() returns it unless the client follows a
\* redirect; then response.text().await and the size check
HttpResponse ==
    /\ pc = "body_wait"
    /\ \E status \in {200, 302}, text \in Outputs \ {<<b_invalid>>} :
            /\ http_status' = status
            /\ IF follows_redirect(redirect_policy, status, http_requests)
               THEN /\ http_requests' = http_requests + 1
                    /\ UNCHANGED <<body, result, pc>>
               ELSE /\ body' = text /\ result' = TextResult(text)
                    /\ pc' = "executed"
                    /\ UNCHANGED http_requests
    /\ UNCHANGED <<envVars, handlerLocals, stages, root, deadline_passed, child,
                   addrs, contacted, glob_todo, files, spawned, dns_queries,
                   matcherVars, resolverVars, parserVars>>

\* the answer of a name changes while a Curl execution is in flight
DnsChange ==
    /\ pc \in {"dns_wait", "http_wait"}
    /\ \E a \in DnsAnswers \ {dns[h_rebind]} : dns' = [dns EXCEPT ![h_rebind] = a]
    /\ UNCHANGED <<fs, content_root, handlerVars, executorVars, matcherVars,
                   resolverVars, parserVars>>

Next ==
    \/ ValidateRequest
    \/ ResolvePath
    \/ Resolve
    \/ ParseFrontmatter
    \/ Substitute
    \/ Validate
    \/ Dispatch
    \/ ExecStart
    \/ ChildExit
    \/ GlobStart
    \/ GlobEntry
    \/ GlobFinish
    \/ DeadlineInGlob
    \/ CurlStart
    \/ DnsAnswer
    \/ HttpConnect
    \/ HttpResponse
    \/ DnsChange
    \/ Elapsed
    \/ OrphanExit
    \/ Respond

Spec == Init /\ [][Next]_vars

(***************************************************************************)
(* The request pipeline in a filesystem that changes: between the two      *)
(* calls of the resolver in execute_action (resolve_path, then resolve)    *)
(* another process creates a file, deletes one or sets a symbolic link.    *)
(***************************************************************************)
FsChanges ==
    {[path |-> <<n_r, n_f>>, node |-> LinkNode(<<n_r, n_sub>>)],
     [path |-> <<n_r, n_f>>, node |-> FileNode(doc_tools)],
     [path |-> <<n_r, n_sub, n_README>>, node |-> NoNode]}

\* one change of the filesystem while the handler is between
\* resolve_path(path).await and resolve(path).await
FsChange ==
    /\ pc = "resolve"
    /\ \E c \in FsChanges :
            /\ Node(fs, c.path) # c.node
            /\ fs' = (c.path :> c.node) @@ fs
    /\ UNCHANGED <<dns, content_root, handlerVars, executorVars, matcherVars,
                   resolverVars, parserVars>>

NextRace == Next \/ FsChange

SpecRace == Init /\ [][NextRace]_vars

(***************************************************************************)
(* Substitution alone: expand_placeholders and expand_env_vars are called  *)
(* on commands of up to MaxExpandWords words with maps of up to two keys,  *)
(* the keys of the map being visited in any order.                         *)
(***************************************************************************)
MaxExpandWords == 2

k_a == <<"a">>
k_b == <<"b">>
k_A == <<"A">>
k_AB == <<"A", "B">>
w_x == <<"x">>
w_ph_a == <<"{", "a", "}">>
w_ph_b == <<"{", "b", "}">>
w_env_A == <<"$", "A">>
w_env_AB == <<"$", "A", "B">>

ExpandWords == {w_ph_a, w_ph_b, w_env_A, w_env_AB}

ExpandCommands == UNION {[1..n -> ExpandWords] : n \in 1..MaxExpandWords}

\* the maps from some of the keys to the values
MapsOf(keys, values) == UNION {[K -> values] : K \in SUBSET keys}

InitExpand ==
    /\ fs = <<>> /\ dns = NoDns /\ content_root = <<>>
    /\ request \in {Request(<<>>, c, a, e) :
            c \in ExpandCommands,
            a \in MapsOf({k_a, k_b}, {w_x, w_ph_a, w_ph_b}),
            e \in MapsOf({k_A, k_AB}, {w_x, w_env_A, w_env_AB})}
    /\ pc = "expand"
    /\ file_path = <<>>
    /\ content = doc_none
    /\ frontmatter = <<>>
    /\ expanded_command = <<>>
    /\ tool = NoValue
    /\ response = NoResponse
    /\ stages = <<>>
    /\ ExecutorIdle /\ MatcherIdle /\ ResolverIdle /\ ParserIdle

CallExpandPlaceholders ==
    /\ pc = "expand"
    /\ \E order \in KeyOrders(request.args) :
            expanded_command' = expand_placeholders(request.command, request.args, order)
    /\ pc' = "expanded_placeholders"
    /\ UNCHANGED <<envVars, request, file_path, content, frontmatter, tool, response,
                   stages, executorVars, matcherVars, resolverVars, parserVars>>

CallExpandEnvVars ==
    /\ pc = "expand"
    /\ \E order \in KeyOrders(request.env) :
            expanded_command' = expand_env_vars(request.command, request.env, order)
    /\ pc' = "expanded_env_vars"
    /\ UNCHANGED <<envVars, request, file_path, content, frontmatter, tool, response,
                   stages, executorVars, matcherVars, resolverVars, parserVars>>

NextExpand == CallExpandPlaceholders \/ CallExpandEnvVars

SpecExpand == InitExpand /\ [][NextExpand]_vars

(***************************************************************************)
(* The spec parser alone: ToolSpec::parse and parse_part are called on raw *)
(* sequences of up to MaxRaw decoded values.                               *)
(***************************************************************************)
MaxRaw == 3

k_flags == <<"f", "l", "a", "g", "s">>
re_md == <<"m", "d", "$">>

RawValues ==
    {Str(w_ls), Str(w_semicolon), Num(1), EmptyMap,
     Map(k_regex :> Str(re_md)), Map(k_regex :> Str(<<"(">>)),
     Map(k_regex :> Num(1)), Map(k_flags :> Str(re_md)),
     Map((k_regex :> Str(re_md)) @@ (k_flags :> Str(w_ls)))}

RawSpecs == UNION {[1..n -> RawValues] : n \in 0..MaxRaw}

InitParse ==
    /\ fs = <<>> /\ dns = NoDns /\ content_root = <<>>
    /\ HandlerIdle /\ ExecutorIdle /\ MatcherIdle /\ ResolverIdle
    /\ p_input \in RawSpecs
    /\ p_out = [op |-> "none"]

CallParse ==
    /\ p_out.op = "none"
    /\ p_out' = [op |-> "parse", res |-> ToolSpec_parse(p_input)]
    /\ UNCHANGED <<envVars, handlerVars, executorVars, matcherVars, resolverVars,
                   p_input>>

CallParsePart(i) ==
    /\ p_out.op = "none"
    /\ p_out' = [op |-> "parse_part", value |-> p_input[i],
                 res |-> parse_part(p_input[i])]
    /\ UNCHANGED <<envVars, handlerVars, executorVars, matcherVars, resolverVars,
                   p_input>>

NextParse ==
    \/ CallParse
    \/ \E i \in 1..Len(p_input) : CallParsePart(i)

SpecParse == InitParse /\ [][NextParse]_vars

(***************************************************************************)
(* Dispatch alone: the two copies of BuiltinTool::from_command in the tree *)
(* are called on curl commands of up to MaxArgs arguments and on other     *)
(* commands of up to MaxArgs arguments.                                    *)
(***************************************************************************)
MaxArgs == 5

w_u == <<"u">>
w_wc == <<"w", "c">>

DispatchFirst == {w_glob, w_ls, w_cat, w_rm, w_wc}
CurlArgWords == {w_X, w_request, w_POST, w_get, w_u, w_v}

DispatchCommands ==
    {<<>>}
        \cup {<<w_curl>> \o args :
                args \in UNION {[1..n -> CurlArgWords] : n \in 0..MaxArgs}}
        \cup {<<first>> \o args :
                first \in DispatchFirst,
                args \in UNION {[1..n -> {w_u, w_v}] : n \in 0..MaxArgs}}

InitDispatch ==
    /\ fs = <<>> /\ dns = NoDns /\ content_root = <<>>
    /\ HandlerIdle /\ ExecutorIdle /\ MatcherIdle /\ ResolverIdle
    /\ p_input \in DispatchCommands
    /\ p_out = [op |-> "none"]

CallFromCommand ==
    /\ p_out.op = "none"
    /\ p_out' = [op |-> "from_command", copy |-> "crates",
                 res |-> from_command(p_input)]
    /\ UNCHANGED <<envVars, handlerVars, executorVars, matcherVars, resolverVars,
                   p_input>>

CallFromCommandCore ==
    /\ p_out.op = "none"
    /\ p_out' = [op |-> "from_command", copy |-> "core",
                 res |-> from_command_core(p_input)]
    /\ UNCHANGED <<envVars, handlerVars, executorVars, matcherVars, resolverVars,
                   p_input>>

NextDispatch == CallFromCommand \/ CallFromCommandCore

SpecDispatch == InitDispatch /\ [][NextDispatch]_vars

(***************************************************************************)
(* The front matter alone: parse_frontmatter is called on documents of up  *)
(* to MaxLines lines.                                                      *)
(***************************************************************************)
MaxLines == 4

DocLines ==
    {d_yaml, d_toml, <<"-", "-", "-", "-">>, <<"-", "-", "-", "x">>, <<"x">>, <<>>}

Documents == UNION {[1..n -> DocLines] : n \in 1..MaxLines}

InitFrontmatter ==
    /\ fs = <<>> /\ dns = NoDns /\ content_root = <<>>
    /\ HandlerIdle /\ ExecutorIdle /\ MatcherIdle /\ ResolverIdle
    /\ p_input \in Documents
    /\ p_out = [op |-> "none"]

CallParseFrontmatter ==
    /\ p_out.op = "none"
    /\ \E decoded \in {NoValue, Some(<< <<Str(w_ls)>> >>)} :
            p_out' = [op |-> "parse_frontmatter",
                      yaml |-> extract_frontmatter(JoinLines(p_input), d_yaml),
                      toml |-> extract_frontmatter(JoinLines(p_input), d_toml),
                      res |-> parse_frontmatter_text(JoinLines(p_input), decoded)]
    /\ UNCHANGED <<envVars, handlerVars, executorVars, matcherVars, resolverVars,
                   p_input>>

NextFrontmatter == CallParseFrontmatter

SpecFrontmatter == InitFrontmatter /\ [][NextFrontmatter]_vars

(***************************************************************************)
(* Claims.                                                                 *)
(***************************************************************************)
\* a result that is the error of a kind
IsErr(res, kind) == ~res.ok /\ res.err = kind

\* the stages of execute_action in the order of its code
StageOrder ==
    <<"validate_request", "resolve_path", "resolve", "parse_frontmatter",
      "substitute", "validate", "dispatch", "execute", "respond">>

\* the executor has been given a tool, or has done something
ExecutorReached ==
    \/ pc \in {"exec_wait", "glob_iter", "dns_wait", "http_wait", "body_wait", "executed"}
    \/ result # NoResult
    \/ child.state # "none"
    \/ spawned + dns_queries + http_requests > 0
    \/ contacted.some

\* the results of args-then-env substitution of the request's command
Substituted ==
    {expand_env_vars(expand_placeholders(request.command, request.args, oa),
                     request.env, oe) :
        oa \in KeyOrders(request.args), oe \in KeyOrders(request.env)}

\* C1: the stages of execute_action happen in the order of its code; once the
\* executor is reached, the command has had args-then-env substitution, the
\* substituted command matches a spec of the addressed document, and the
\* tool dispatched and the subprocess spawned are those of the substituted
\* command; a request that failed at an earlier stage never reaches the
\* executor.
C1_PipelineOrder ==
    /\ \E n \in 0..Len(StageOrder) : stages = SubSeq(StageOrder, 1, n)
    /\ ExecutorReached =>
            /\ SubSeq(stages, 1, 7) = SubSeq(StageOrder, 1, 7)
            /\ parse_frontmatter(content) = [ok |-> TRUE, specs |-> frontmatter]
            /\ expanded_command \in Substituted
            /\ is_valid_tool_call(expanded_command, frontmatter)
            /\ from_command(expanded_command) = [ok |-> TRUE, tool |-> tool.v]
            /\ child.state # "none" => child.argv = expanded_command
    /\ (tool.some \/ pc = "execute") => is_valid_tool_call(expanded_command, frontmatter)
    /\ (response # NoResponse /\ response.status # 200 /\ Len(stages) < 8) =>
            ~ExecutorReached

\* a command that matches a spec only after substitution has been executed
C1_Witness ==
    /\ pc = "done"
    /\ response.status = 200
    /\ expanded_command # request.command
    /\ ~is_valid_tool_call(request.command, frontmatter)
    /\ child.state = "exited"
    /\ child.argv = expanded_command

\* an argument that starts with "/" or contains ".."
Offending(arg) ==
    \/ (arg # <<>> /\ Head(arg) = "/")
    \/ \E i \in 1..(Len(arg) - 1) : arg[i] = "." /\ arg[i + 1] = "."

\* C4: an Exec tool with an argument, at any position, that starts with "/"
\* or contains ".." spawns no subprocess, and its result is a Security error.
C4_ExecArgsRefused ==
    (tool.some /\ tool.v.type = "exec"
        /\ \E i \in 1..Len(tool.v.args) : Offending(tool.v.args[i])) =>
            /\ spawned = 0
            /\ child.state = "none"
            /\ pc \in {"executed", "done"} => IsErr(result, "Security")

\* the first of two arguments was refused, the last one being harmless
C4_Witness ==
    /\ pc = "executed"
    /\ tool.v.type = "exec"
    /\ Len(tool.v.args) = 2
    /\ Offending(tool.v.args[1])
    /\ ~Offending(tool.v.args[2])
    /\ IsErr(result, "Security")
    /\ spawned = 0

\* a URL the URL layer is to refuse: its scheme, the name of its host, or
\* the address its host is
BlockedUrl(url) ==
    \/ url.scheme \notin {s_http, s_https}
    \/ url.host.kind = "domain"
        /\ url.host.name \in {h_localhost, h_localdomain, h_metadata}
    \/ url.host.kind = "ip"
        /\ (url.host.ip = ip_metadata \/ is_private_or_restricted_ip(url.host.ip))

\* C5: a Curl tool whose URL has another scheme than http or https, a host
\* named localhost, localhost.localdomain or metadata.google.internal, or a
\* host that is 169.254.169.254 or a private or restricted address, makes no
\* DNS query and no HTTP request, and its result is a Security error.
C5_UrlRefusedBeforeLookup ==
    (tool.some /\ tool.v.type = "curl"
        /\ \E u \in Urls : UrlText(u) = tool.v.url /\ BlockedUrl(u)) =>
            /\ dns_queries = 0
            /\ http_requests = 0
            /\ ~contacted.some
            /\ pc \in {"executed", "done"} => IsErr(result, "Security")

\* the URL of localhost was refused with nothing looked up or sent
C5_Witness ==
    /\ pc = "executed"
    /\ tool.v = Curl(UrlText(Url(s_http, Domain(h_localhost))), "GET")
    /\ IsErr(result, "Security")
    /\ dns_queries = 0
    /\ http_requests = 0

\* C6: when an address the host resolved to is private or restricted, the
\* result is a Security error and no HTTP request is made, whatever other
\* addresses the answer holds.
C6_AnyPrivateRefused ==
    (\E a \in addrs : is_private_or_restricted_ip(a)) =>
        /\ pc \in {"executed", "done"}
        /\ IsErr(result, "Security")
        /\ http_requests = 0
        /\ ~contacted.some

\* an answer with a public and a private address was refused
C6_Witness ==
    /\ pc = "executed"
    /\ dns_queries = 1
    /\ \E a \in addrs : is_private_or_restricted_ip(a)
    /\ \E a \in addrs : ~is_private_or_restricted_ip(a)
    /\ IsErr(result, "Security")
    /\ http_requests = 0

\* C7: the address the HTTP client connects to is one of the addresses
\* that passed the check after lookup_host, and is not private or
\* restricted, also when the answer for the host changes in between.
C7_ContactedWasChecked ==
    contacted.some =>
        /\ contacted.v \in addrs
        /\ ~is_private_or_restricted_ip(contacted.v)

\* every address of the answer checked was public, the answer changed, and
\* the client has connected to a private address
C7_Witness ==
    /\ contacted.some
    /\ dns_queries = 1
    /\ addrs # {}
    /\ \A a \in addrs : ~is_private_or_restricted_ip(a)
    /\ contacted.v \notin addrs
    /\ is_private_or_restricted_ip(contacted.v)

\* C8: an execution whose result was not there when limits.timeout elapsed
\* ends with the error Timeout, for the Exec, Glob and Curl tools alike.
C8_TimeoutForEveryTool ==
    (deadline_passed /\ pc \in {"executed", "done"}) => result = Err("Timeout")

\* limits.timeout elapsed during a Glob expansion, which went on to the end
\* and returned its file list
C8_Witness ==
    /\ deadline_passed
    /\ pc = "executed"
    /\ tool.v.type = "glob"
    /\ result.ok
    /\ result.output.kind = "FileList"
    /\ result.output.files # <<>>

\* C9: once the Timeout of an Exec execution has been answered to the
\* caller, no subprocess the request spawned is still running.
C9_NoSubprocessAfterTimeout ==
    (pc = "done" /\ response = error_to_action_response(Err("Timeout"))) =>
        child.state # "running"

\* the Timeout of an Exec execution was answered and its subprocess runs on
C9_Witness ==
    /\ pc = "done"
    /\ response = error_to_action_response(Err("Timeout"))
    /\ spawned = 1
    /\ child.state = "running"
    /\ child.argv = expanded_command

\* the text whose size execute_exec checks: the decoded stdout, then "\n"
\* and the decoded stderr, the "\n" only when both are there
Measured(stdout, stderr) ==
    from_utf8_lossy(stdout)
        \o (IF stdout # <<>> /\ stderr # <<>> THEN <<"\n">> ELSE <<>>)
        \o from_utf8_lossy(stderr)

\* the result of a text of the given size
SizeChecked(text) ==
    /\ Len(text) <= max_output_bytes =>
            result = [ok |-> TRUE, output |-> [kind |-> "Text", text |-> text]]
    /\ Len(text) >= max_output_bytes + 1 => result = Err("OutputTooLarge")

\* the subprocess of an Exec execution has exited within the timeout
ExecCompleted ==
    /\ pc \in {"executed", "done"}
    /\ child.state = "exited"
    /\ ~deadline_passed

\* the body of a Curl execution has arrived within the timeout
CurlCompleted ==
    /\ pc \in {"executed", "done"}
    /\ contacted.some
    /\ ~deadline_passed

\* C10: an Exec or Curl output of max_output_bytes bytes or fewer is the
\* result, one of max_output_bytes + 1 bytes or more is OutputTooLarge; the
\* output of Exec is stdout, then "\n" and stderr when there is stderr, the
\* "\n" only when both are non-empty, and the "\n" counts.
C10_OutputSizeBoundary ==
    /\ ExecCompleted => SizeChecked(Measured(child.stdout, child.stderr))
    /\ CurlCompleted => SizeChecked(body)

\* stdout and stderr that make max_output_bytes bytes with their "\n" were
\* the result
C10_Witness ==
    /\ ExecCompleted
    /\ child.stdout # <<>>
    /\ child.stderr # <<>>
    /\ Len(child.stdout) + 1 + Len(child.stderr) = max_output_bytes
    /\ result.ok
    /\ result.output.text = child.stdout \o <<"\n">> \o child.stderr

\* C11: the working directory of every subprocess is the parent directory of
\* the canonical path of the resolved document: <root>/sub for the request
\* path "sub" resolved to <root>/sub/README.md, <root> for "f" resolved to
\* <root>/f.md.
C11_WorkingDirIsDocumentParent ==
    child.state # "none" =>
        LET doc == resolve_path(fs, content_root, request.path)
        IN  /\ doc.ok
            /\ canonicalize(fs, doc.path).path = doc.path
            /\ child.cwd = SubSeq(doc.path, 1, Len(doc.path) - 1)
            /\ is_dir(fs, child.cwd)
            /\ request.path = n_sub => child.cwd = <<n_r, n_sub>>
            /\ request.path = n_f => child.cwd = RootDir

\* a subprocess of a request for "sub" runs in <root>/sub
C11_Witness ==
    /\ child.state = "running"
    /\ request.path = n_sub
    /\ file_path = <<n_r, n_sub, n_README>>
    /\ child.cwd = <<n_r, n_sub>>

\* the strings the client sent: the request path, the words of the command
\* and the values of the maps, and the words made of them by substitution
ClientInput ==
    {request.path}
        \cup {request.command[i] : i \in DOMAIN request.command}
        \cup {request.args[k] : k \in DOMAIN request.args}
        \cup {request.env[k] : k \in DOMAIN request.env}
        \cup {expanded_command[i] : i \in DOMAIN expanded_command}

\* C12: the message of every PathTraversal or Security rejection is formatted
\* with text of the client's own input only: it shows no resolved path and
\* no address obtained by resolving the host.
C12_MessageEchoesInputOnly ==
    (response # NoResponse /\ response.status = 403) =>
        /\ response.err \in {"PathTraversal", "Security"}
        /\ \E c \in ClientInput : Contains(c, response.stderr.arg)

\* the answer for a host name held a private address, and the message of
\* the rejection shows that address
C12_Witness ==
    /\ pc = "done"
    /\ response.status = 403
    /\ dns_queries = 1
    /\ \E a \in addrs :
            /\ is_private_or_restricted_ip(a)
            /\ response.stderr.arg = AddrText(a)
            /\ ~Contains(tool.v.url, AddrText(a))

\* the HTTP status of the outcome of resolve_path
ResolveStatus(res) == IF res.ok THEN 200 ELSE status_code(res.err)

\* two filesystems that are the same inside the content root
SameInsideRoot(f1, f2) ==
    \A p \in DOMAIN f1 : starts_with(p, RootDir) => f2[p] = f1[p]

\* C13: for the path of a link inside the root to a target outside it, the
\* status is 403, and it is the same in every filesystem that differs only
\* outside the root, whether the target exists or not.
C13_StatusHidesOutsideFiles ==
    (/\ r_out.op = "resolve_path"
     /\ r_path = n_evil
     /\ fs[<<n_r, n_evil>>] = LinkNode(<<n_etc, n_passwd>>)) =>
        /\ ResolveStatus(r_out.res) = 403
        /\ \A f2 \in ResolveFs :
                SameInsideRoot(fs, f2) =>
                    ResolveStatus(resolve_path(f2,
                        new_resolver(f2, content_root, r_variant).root, r_path)) = 403

\* the target of the link does not exist and the status is 404
C13_Witness ==
    /\ r_out.op = "resolve_path"
    /\ r_path = n_evil
    /\ fs[<<n_r, n_evil>>] = LinkNode(<<n_etc, n_passwd>>)
    /\ fs[<<n_etc, n_passwd>>] = NoNode
    /\ IsErr(r_out.res, "NotFound")
    /\ ResolveStatus(r_out.res) = 404

\* C14: the environment of every subprocess is PATH, HOME, LANG and LC_ALL
\* with their four fixed values and nothing else: no variable of the server
\* process, no entry of the env map of the request.
C14_ChildEnvironmentFixed ==
    child.state # "none" =>
        /\ DOMAIN child.env = {"PATH", "HOME", "LANG", "LC_ALL"}
        /\ child.env["PATH"] = "/usr/local/bin:/usr/bin:/bin"
        /\ child.env["HOME"] = "/tmp"
        /\ child.env["LANG"] = "C.UTF-8"
        /\ child.env["LC_ALL"] = "C.UTF-8"
        /\ Cardinality(DOMAIN child.env) = 4

\* a request with an env map has spawned a subprocess whose command word
\* came of the map
C14_Witness ==
    /\ child.state = "running"
    /\ DOMAIN request.env # {}
    /\ expanded_command # request.command
    /\ DOMAIN child.env = {"PATH", "HOME", "LANG", "LC_ALL"}

\* C15: the result of expand_placeholders, and of expand_env_vars, is the
\* same for every order in which the keys of the map are visited, also when
\* the pattern of a key overlaps that of another ($A and $AB) or the value
\* of a key holds the pattern of another.
C15_OrderIndependent ==
    /\ pc = "expanded_placeholders" =>
            \A order \in KeyOrders(request.args) :
                expand_placeholders(request.command, request.args, order) = expanded_command
    /\ pc = "expanded_env_vars" =>
            \A order \in KeyOrders(request.env) :
                expand_env_vars(request.command, request.env, order) = expanded_command

\* with the keys A and AB, $AB became the value of A followed by B, which
\* another order of the keys does not give
C15_Witness ==
    /\ pc = "expanded_env_vars"
    /\ request.command = <<w_env_AB>>
    /\ DOMAIN request.env = {k_A, k_AB}
    /\ request.env[k_A] = w_x /\ request.env[k_AB] = w_env_A
    /\ expanded_command = <<<<"x", "B">>>>
    /\ \E order \in KeyOrders(request.env) :
            expand_env_vars(request.command, request.env, order) # expanded_command

\* the command word i is the pattern of the key k, and holds the pattern of
\* no other key of the map
IsPatternOf(i, k, map, open, close) ==
    /\ request.command[i] = open \o k \o close
    /\ \A k2 \in DOMAIN map \ {k} : ~Contains(request.command[i], open \o k2 \o close)

\* C20: a value inserted for a key is not replaced again: a command word
\* that is the pattern of one key becomes the value of that key as it is in
\* the map, also when the value holds the pattern of another key, for
\* expand_placeholders and for expand_env_vars.
C20_NoReexpansion ==
    /\ pc = "expanded_placeholders" =>
            \A i \in DOMAIN request.command, k \in DOMAIN request.args :
                IsPatternOf(i, k, request.args, <<"{">>, <<"}">>) =>
                    expanded_command[i] = request.args[k]
    /\ pc = "expanded_env_vars" =>
            \A i \in DOMAIN request.command, k \in DOMAIN request.env :
                IsPatternOf(i, k, request.env, <<"$">>, <<>>) =>
                    expanded_command[i] = request.env[k]

\* the value {b} inserted for the key a was replaced by the value of b
C20_Witness ==
    /\ pc = "expanded_placeholders"
    /\ request.command = <<w_ph_a>>
    /\ DOMAIN request.args = {k_a, k_b}
    /\ request.args[k_a] = w_ph_b
    /\ request.args[k_b] = w_x
    /\ expanded_command = <<w_x>>

\* C16: a request path that holds ".." anywhere after its leading slashes is
\* refused with PathTraversal, status 403, by resolve_path and by resolve,
\* by the check of the path string alone: in every filesystem, whether a
\* file exists at the joined path or not, and also when ".." is part of a
\* file name.
C16_DotDotRefused ==
    (r_out.op # "none" /\ Contains(TrimStartMatches(r_path, "/"), <<".", ".">>)) =>
        /\ IsErr(r_out.res, "PathTraversal")
        /\ r_out.res = validate_path(new_resolver(fs, content_root, r_variant).root, r_path)
        /\ r_out.res.attempted = TrimStartMatches(r_path, "/")
        /\ ResolveStatus(r_out.res) = 403

\* the path of an existing file whose name holds ".." was refused
C16_Witness ==
    /\ r_out.op = "resolve"
    /\ r_path = n_dotted
    /\ content_root = RootDir
    /\ fs[<<n_r, n_dotted>>].kind = "file"
    /\ IsErr(r_out.res, "PathTraversal")

\* C17: a request with an empty command is answered 400 with returncode 1
\* by the first step, before its path is resolved, whatever the path; and
\* validate_command_with_specs of an empty command is InvalidCommand for
\* every list of specs.
C17_EmptyCommandRefusedFirst ==
    /\ (request.command = <<>> /\ pc # "validate_request") =>
            /\ pc = "done"
            /\ response = error_response(400)
            /\ response.status = 400 /\ response.returncode = 1
            /\ stages = <<"validate_request">>
            /\ file_path = <<>>
            /\ ~ExecutorReached
    /\ \A specs \in {<<>>, frontmatter, <<ToolSpec(<<Placeholder(NoRegex)>>, FALSE)>>} :
            validate_command_with_specs(specs, <<>>) = Err("InvalidCommand")

\* an empty command for a path that does not exist was answered 400
C17_Witness ==
    /\ pc = "done"
    /\ request.command = <<>>
    /\ request.path = n_nope
    /\ ~resolve_path(fs, content_root, request.path).ok
    /\ response.status = 400

\* the error kinds of the tool runtime, each as a value of the kind
ErrorValues ==
    {Err(k) : k \in {"InvalidCommand", "CommandNotFound", "NoFrontmatter",
                     "FrontmatterParse", "NotFound", "Timeout",
                     "OutputTooLarge", "Network", "Io", "Internal"}}
        \cup {PathTraversal(n_etc, <<>>), Security("Access to private IP blocked", h_rebind)}

\* the status the kinds are to be answered with
ExpectedStatus ==
    [k \in {"InvalidCommand", "CommandNotFound", "NoFrontmatter",
            "FrontmatterParse"} |-> 400]
        @@ [k \in {"PathTraversal", "Security"} |-> 403]
        @@ ("NotFound" :> 404) @@ ("Timeout" :> 408)
        @@ ("OutputTooLarge" :> 413) @@ ("Network" :> 502)
        @@ [k \in {"Io", "Internal"} |-> 500]

\* the body of an error: returncode 1, no stdout, a message in stderr
ErrorBody(r) ==
    r.returncode = 1 /\ r.stdout = NoText /\ r.stderr # NoText

C19_ChildFailureSurfaced ==
    (pc = "done" /\ child.state = "exited" /\ child.status # 0) =>
        response.returncode # 0

\* a subprocess ended with status 1 and the request was answered 200 with
\* returncode 0 and the subprocess's output
C19_Witness ==
    /\ pc = "done"
    /\ child.state = "exited"
    /\ child.status = 1
    /\ response.status = 200
    /\ response.returncode = 0
    /\ response.stdout.arg = ExecText(child.stdout, child.stderr)

\* C21: one request issues at most one outbound HTTP request and spawns at
\* most one subprocess; a 3xx response that arrived is the result of the
\* Curl execution, and a subprocess that could not be started is not
\* started again
C21_AtMostOneSideEffect ==
    /\ http_requests <= 1
    /\ spawned <= 1
    /\ (pc \in {"executed", "done"} /\ http_status \in 300..399) =>
            /\ http_requests = 1
            /\ result = TextResult(body)
    /\ (pc \in {"executed", "done"} /\ IsErr(result, "Internal")) =>
            spawned = 0 /\ child = NoChild

\* a Curl execution received a 302 and answered with its body after one
\* request
C21_Witness ==
    /\ pc = "done"
    /\ http_status = 302
    /\ http_requests = 1
    /\ response.status = 200
    /\ response.stdout.arg = body

\* the number of sentinels a raw sequence ends with: one or none
Terminators(raw) == IF raw # <<>> /\ IsSentinel(raw[Len(raw)]) THEN 1 ELSE 0

\* C22: ToolSpec::parse gives as many parts as raw values, less one when the
\* last value is the string ";", and options_disabled is true exactly when
\* the last value is ";"
C22_SentinelOnlyTerminator ==
    (p_out.op = "parse" /\ p_out.res.ok) =>
        /\ Len(p_out.res.spec.parts) = Len(p_input) - Terminators(p_input)
        /\ p_out.res.spec.options_disabled = (Terminators(p_input) = 1)

\* a raw sequence with ";" between two words was parsed into two parts
C22_Witness ==
    /\ p_out.op = "parse"
    /\ p_input = <<Str(w_ls), Str(w_semicolon), Str(w_ls)>>
    /\ p_out.res.ok
    /\ p_out.res.spec.parts = <<Literal(w_ls), Literal(w_ls)>>

\* the outcome of parse_part the two map shapes and the strings allow
ShapeOutcome(value) ==
    IF value.t = "string" THEN {[ok |-> TRUE, part |-> Literal(value.s)]}
    ELSE IF value = EmptyMap THEN {[ok |-> TRUE, part |-> Placeholder(NoRegex)]}
    ELSE IF /\ value.t = "object"
            /\ DOMAIN value.m = {k_regex}
            /\ value.m[k_regex].t = "string"
    THEN {r \in {CompileRegex(value.m[k_regex].s)} : ~r.ok}
            \cup {[ok |-> TRUE, part |-> Placeholder(r.regex)] :
                        r \in {c \in {CompileRegex(value.m[k_regex].s)} : c.ok}}
    ELSE {Err("InvalidPart")}

\* C23: parse_part accepts the empty map and the map whose single key is
\* regex with a string value (InvalidRegex when it does not compile); every
\* other map and every value that is no string fails with InvalidPart
C23_TwoMapShapes ==
    (p_out.op = "parse_part") => p_out.res \in ShapeOutcome(p_out.value)

\* a map with the key regex and a further key was parsed into a placeholder
C23_Witness ==
    /\ p_out.op = "parse_part"
    /\ p_out.value = Map((k_regex :> Str(re_md)) @@ (k_flags :> Str(w_ls)))
    /\ p_out.res.ok
    /\ p_out.res.part = Placeholder(CompileRegex(re_md).regex)

\* a path with ".md" appended to its last component
AppendMd(p) ==
    IF p = <<>> THEN p ELSE [p EXCEPT ![Len(p)] = @ \o <<".">> \o n_md]

\* the target of the request path of the resolver alone
ResolveRoot == new_resolver(fs, content_root, r_variant).root
ResolveTarget == validate_path(ResolveRoot, r_path)

\* C24: when the target is neither a file nor a directory, resolve_path
\* uses the target with ".md" appended if that is a file and fails with
\* NotFound otherwise
C24_MdAppended ==
    (/\ r_out.op = "resolve_path"
     /\ ResolveTarget.ok
     /\ ~is_file(fs, ResolveTarget.path)
     /\ ~is_dir(fs, ResolveTarget.path)) =>
        IF is_file(fs, AppendMd(ResolveTarget.path))
        THEN r_out.res.ok =>
                r_out.res.path = canonicalize(fs, AppendMd(ResolveTarget.path)).path
        ELSE IsErr(r_out.res, "NotFound")

\* the path f.t, with neither f.t nor f.t.md in the root, resolved to f.md
C24_Witness ==
    /\ r_out.op = "resolve_path"
    /\ r_path = n_ft
    /\ ~is_file(fs, AppendMd(ResolveTarget.path))
    /\ r_out.res.ok
    /\ r_out.res.path = canonicalize(fs, <<n_r, w_fmd>>).path

\* the candidates of a target in their order: the target, its README.md,
\* the target with ".md" appended
Candidates(target) == <<target, Append(target, n_README), AppendMd(target)>>

\* C25: resolve_path gives the first of <root>/p, <root>/p/README.md and
\* <root>/p.md that is a file, when that file lies in the root, and fails
\* when none is a file
C25_FirstExistingCandidate ==
    (r_out.op = "resolve_path" /\ ResolveTarget.ok) =>
        LET cands == Candidates(ResolveTarget.path)
            found == {i \in 1..3 : is_file(fs, cands[i])}
            first == CHOOSE i \in found : \A j \in found : i <= j
        IN  IF found = {} THEN ~r_out.res.ok
            ELSE starts_with(canonicalize(fs, cands[first]).path,
                             canonicalize(fs, content_root).path) =>
                    /\ r_out.res.ok
                    /\ r_out.res.path = canonicalize(fs, cands[first]).path

\* the path f, with the directory f without README.md and the file f.md in
\* the root, was not found
C25_Witness ==
    /\ r_out.op = "resolve_path"
    /\ r_path = n_f
    /\ fs[<<n_r, n_f>>] = DirNode
    /\ is_file(fs, <<n_r, w_fmd>>)
    /\ IsErr(r_out.res, "NotFound")

\* the arguments of a curl command read from argument i on: "flag" for -X
\* or --request with the word after it, "trailing" for one without a word
\* after it, "unknown" for another word starting with "-", "bare" otherwise
RECURSIVE CurlTokens(_, _)
CurlTokens(args, i) ==
    IF i > Len(args) THEN <<>>
    ELSE IF args[i] = w_X \/ args[i] = w_request
         THEN IF i = Len(args) THEN <<[kind |-> "trailing", word |-> args[i]]>>
              ELSE <<[kind |-> "flag", word |-> args[i + 1]]>>
                        \o CurlTokens(args, i + 2)
    ELSE IF StartsWith(args[i], <<"-">>)
         THEN <<[kind |-> "unknown", word |-> args[i]]>> \o CurlTokens(args, i + 1)
    ELSE <<[kind |-> "bare", word |-> args[i]]>> \o CurlTokens(args, i + 1)

\* the words of the tokens of a kind, in their order
TokenWords(tokens, kind) ==
    LET Keep(t) == t.kind = kind
        picked == SelectSeq(tokens, Keep)
    IN  [i \in 1..Len(picked) |-> picked[i].word]

\* C26: a curl command becomes a Curl tool only with at most one -X or
\* --request and exactly one bare argument; an unknown flag, a trailing -X,
\* a missing URL and an unknown method give InvalidCommand; without a
\* method the tool's method is GET
C26_CurlArguments ==
    (p_out.op = "from_command" /\ p_input # <<>> /\ p_input[1] = w_curl) =>
        LET tokens == CurlTokens(Tail(p_input), 1)
            bare == TokenWords(tokens, "bare")
            methods == TokenWords(tokens, "flag")
            refused == \/ TokenWords(tokens, "unknown") # <<>>
                       \/ TokenWords(tokens, "trailing") # <<>>
                       \/ bare = <<>>
                       \/ \E i \in 1..Len(methods) : ~ParseMethod(methods[i]).ok
        IN  /\ refused => IsErr(p_out.res, "InvalidCommand")
            /\ (Len(bare) > 1 \/ Len(methods) > 1) => ~p_out.res.ok
            /\ (~refused /\ Len(bare) = 1 /\ Len(methods) <= 1) =>
                    /\ p_out.res.ok
                    /\ p_out.res.tool.type = "curl"
                    /\ p_out.res.tool.url = bare[1]
                    /\ p_out.res.tool.method =
                            IF methods = <<>> THEN "GET"
                            ELSE ParseMethod(methods[1]).method

\* a curl command with two bare arguments became a Curl tool of the first
C26_Witness ==
    /\ p_out.op = "from_command"
    /\ p_input = <<w_curl, w_u, w_get>>
    /\ p_out.res.ok
    /\ p_out.res.tool = Curl(w_u, "GET")

\* C27: every non-empty command whose first word is neither glob nor curl
\* is dispatched to Exec with the first word as the command and the other
\* words, in their order, as the arguments
C27_NoSecondAllowlist ==
    (/\ p_out.op = "from_command"
     /\ p_input # <<>>
     /\ p_input[1] \notin {w_glob, w_curl}) =>
        p_out.res =
            [ok |-> TRUE,
             tool |-> [type |-> "exec", command |-> p_input[1],
                       args |-> SubSeq(p_input, 2, Len(p_input))]]

\* the command rm u was refused by the dispatcher of core/crates
C27_Witness ==
    /\ p_out.op = "from_command"
    /\ p_out.copy = "core"
    /\ p_input = <<w_rm, w_u>>
    /\ IsErr(p_out.res, "InvalidCommand")

\* the lines of a document from its first line that is not empty
RECURSIVE FromFirstLine(_)
FromFirstLine(lines) ==
    IF lines # <<>> /\ trim(Head(lines)) = <<>> THEN FromFirstLine(Tail(lines))
    ELSE lines

\* the block between an opening line that is the delimiter and the first
\* later line that is the delimiter
BlockBetween(lines, delim) ==
    LET from == FromFirstLine(lines)
        closing == {j \in 2..Len(from) : from[j] = delim}
        first == CHOOSE j \in closing : \A k \in closing : j <= k
    IN  IF from = <<>> \/ from[1] # delim \/ closing = {} THEN NoValue
        ELSE Some(trim(JoinLines(SubSeq(from, 2, first - 1))))

\* C28: a block is recognised only between an opening line --- or +++ and
\* the first later line whose content is exactly the same delimiter, and
\* the extracted text ends there; without both the outcome is NoFrontmatter
C28_BlockBetweenDelimiterLines ==
    (p_out.op = "parse_frontmatter") =>
        /\ p_out.yaml = BlockBetween(p_input, d_yaml)
        /\ (~p_out.yaml.some) => p_out.toml = BlockBetween(p_input, d_toml)
        /\ (/\ ~BlockBetween(p_input, d_yaml).some
            /\ ~BlockBetween(p_input, d_toml).some) =>
                IsErr(p_out.res, "NoFrontmatter")

\* the line ---x closed the block opened by ---, and the line --- after it
\* was left outside
C28_Witness ==
    /\ p_out.op = "parse_frontmatter"
    /\ p_input = <<d_yaml, <<"x">>, <<"-", "-", "-", "x">>, d_yaml>>
    /\ p_out.yaml = Some(<<"x">>)
    /\ BlockBetween(p_input, d_yaml) = Some(<<"x", "\n", "-", "-", "-", "x">>)

\* the keys of the entries a pattern matches below a directory, in the
\* order of the listing, cut to max_list_items
ListedBelow(dir, pattern) ==
    LET entries == SortPaths(GlobPaths(fs, join(dir, TrimStartMatches(pattern, "/"))))
        keys == [i \in 1..Len(entries) |-> PathText(strip_prefix(entries[i], dir))]
    IN  IF Len(keys) > max_list_items THEN SubSeq(keys, 1, max_list_items) ELSE keys

\* C29: a Glob execution refuses a pattern containing ".." with
\* PathTraversal and otherwise lists what the pattern matches below the
\* content root, whatever the directory of the document, at most
\* max_list_items entries
C29_GlobBelowContentRoot ==
    (/\ pc = "done"
     /\ tool.some
     /\ result # NoResult
     /\ tool.v.type = "glob") =>
        IF Contains(tool.v.pattern, <<".", ".">>)
        THEN IsErr(result, "PathTraversal")
        ELSE /\ result.ok
             /\ result.output.kind = "FileList"
             /\ Len(result.output.files) <= max_list_items
             /\ result.output.files =
                    ListedBelow(canonicalize(fs, content_root).path, tool.v.pattern)

\* the pattern *.md of the document sub/README.md listed README.md of sub
\* and not f.md of the content root
C29_Witness ==
    /\ pc = "done"
    /\ request.path = n_sub
    /\ tool.some
    /\ result.ok
    /\ tool.v.type = "glob"
    /\ result.output.files = <<n_README>>
    /\ is_file(fs, <<n_r, w_fmd>>)
    /\ root = <<n_r, n_sub>>

\* C30: when the executor of a request is built, the document resolve read
\* for the front matter is the file resolve_path returned, whose parent
\* directory is the executor's root, whatever the changes of the filesystem
\* between the two calls
C30_ValidatedDocumentIsExecutedDocument ==
    (root # <<>>) =>
        LET c == resolve(fs, Resolver.root, request.path)
        IN  /\ c.ok
            /\ c.read = file_path
            /\ root = SubSeq(c.read, 1, Len(c.read) - 1)

\* the request for f was resolved to f.md; f then became a link to sub, the
\* command ls was validated against sub/README.md, which f.md does not
\* declare, and runs in the directory of f.md
C30_Witness ==
    /\ child.state = "running"
    /\ request.path = n_f
    /\ file_path = <<n_r, w_fmd>>
    /\ fs[<<n_r, w_fmd>>] = FileNode(doc_strict)
    /\ Node(fs, <<n_r, n_f>>) = LinkNode(<<n_r, n_sub>>)
    /\ resolve(fs, Resolver.root, request.path).read = <<n_r, n_sub, n_README>>
    /\ content = doc_tools
    /\ child.argv = <<w_ls>>
    /\ ~is_valid_tool_call(<<w_ls>>, parse_frontmatter(doc_strict).specs)
    /\ child.cwd = RootDir

\* whether a part accepts a word
Accepts(part, word) ==
    \/ part.kind = "Literal" /\ word = part.lit
    \/ part.kind = "Placeholder" /\ part.regex = NoRegex
    \/ part.kind = "Placeholder" /\ part.regex # NoRegex /\ is_match(part.regex, word)

\* m >= n, no extra word when options are disabled, and part i accepts word i
MatchesExactly(command, spec) ==
    /\ Len(command) >= Len(spec.parts)
    /\ (Len(command) = Len(spec.parts) \/ ~spec.options_disabled)
    /\ \A i \in 1..Len(spec.parts) : Accepts(spec.parts[i], command[i])

\* C2: matches_spec is true exactly when the command has at least as many
\* words as the spec has parts, has no more when options are disabled, and
\* every part accepts its word; is_valid_tool_call is true exactly when the
\* command is not empty and some spec of the list matches.
C2_MatchesSpecExact ==
    /\ m_out.op = "matches_spec" =>
            m_out.result = MatchesExactly(m_command, m_out.spec)
    /\ m_out.op = "is_valid_tool_call" =>
            m_out.result = (/\ m_command # <<>>
                            /\ \E i \in 1..Len(m_specs) :
                                    MatchesExactly(m_command, m_specs[i]))

\* a spec ending in ";" whose parts all accept has refused a longer command
C2_Witness ==
    /\ m_out.op = "matches_spec"
    /\ m_out.spec.options_disabled
    /\ Len(m_command) > Len(m_out.spec.parts)
    /\ \A i \in 1..Len(m_out.spec.parts) : Accepts(m_out.spec.parts[i], m_command[i])
    /\ m_out.result = FALSE

\* C3: resolve_path fails or returns a canonical path below the canonical
\* content root, and resolve returns the contents of no file outside it,
\* whatever the symbolic links of the filesystem.
C3_RootConfinement ==
    LET R == canonicalize(fs, content_root).path
    IN  /\ (r_out.op = "resolve_path" /\ r_out.res.ok) =>
                /\ SubSeq(r_out.res.path, 1, Len(R)) = R
                /\ Len(r_out.res.path) > Len(R)
                /\ canonicalize(fs, r_out.res.path) = [ok |-> TRUE, path |-> r_out.res.path]
        /\ (r_out.op = "resolve" /\ r_out.res.ok) =>
                /\ SubSeq(r_out.res.read, 1, Len(R)) = R
                /\ Len(r_out.res.read) > Len(R)

\* a link in the root to an existing file outside it was refused
C3_Witness ==
    /\ r_out.op = "resolve_path"
    /\ r_path = n_evil
    /\ fs[<<n_r, n_evil>>] = LinkNode(<<n_etc, n_passwd>>)
    /\ fs[<<n_etc, n_passwd>>].kind = "file"
    /\ IsErr(r_out.res, "PathTraversal")

=============================================================================
